---- MODULE Spec2Model ----
(***************************************************************************)
(* State-machine model of the SNAI server (src/server.js): the session     *)
(* registry and broadcast channel, the WebSocket message handlers, the     *)
(* per-wallet rate limiter, the agent registration endpoints and the       *)
(* scheduled content routines.                                             *)
(***************************************************************************)
EXTENDS Integers, Sequences, FiniteSets, TLC

VARIABLES
  now,                    \* Date.now(), in milliseconds
  clients,                \* Map ws -> { wallet }, in insertion order
  readyState,             \* ws.readyState of every socket
  online,                 \* state.online
  inbox,                  \* per socket: ids of the posts whose new_post event it was sent
  joinedAt,               \* per socket: nextPostId when its connection handler ran
  posts,                  \* let posts = []
  nextPostId,             \* let nextPostId = 1
  users,                  \* let users = {}
  achievements,           \* let achievements = {}
  rateLimitMap,           \* const rateLimitMap = new Map()
  accepted,               \* per wallet: times of its last limited commands that were not rejected
  tokenDiscussion,        \* let tokenDiscussion = []
  registeredAgents,       \* let registeredAgents = {}
  agentApiKeys,           \* let agentApiKeys = {}
  registrationRateLimits, \* let registrationRateLimits = {}
  idGen,                  \* number of credentials generated so far
  res,                    \* the HTTP response of the last step
  agents,                 \* let agents = [...]: the core agents
  userAgents,             \* let userAgents = {}: an object, or the array of a legacy data file
  agentRooms,             \* let agentRooms = {...}
  battles,                \* let battles = []
  nextBattleId,           \* let nextBattleId = 1
  tasks,                  \* invocations suspended at an await
  proc,                   \* "running", or "crashed" after an uncaught exception
  agentCreationLimits,    \* const agentCreationLimits = { byIP: {}, byWallet: {} }
  proposals,              \* let proposals = []
  nextProposalId,         \* let nextProposalId = 1
  agentTokens,            \* let agentTokens = [...]
  nextTokenId,            \* let nextTokenId = 4
  seenPosts,              \* agent-bot.js: this.seenPosts, in insertion order
  botComments,            \* per post id: the agent.comment() calls the bot made for it
  listed,                 \* the highest post id the server has listed to the bot
  req,                    \* the message, request or timer event handled by the last step
  out                     \* the ws.send writes of the last step, in order

sessVars == <<clients, readyState, online, inbox, joinedAt>>
postVars == <<posts, nextPostId>>
userVars == <<users, achievements>>
rateVars == <<rateLimitMap, accepted>>
regVars == <<registeredAgents, agentApiKeys, registrationRateLimits, idGen>>
schedVars == <<agents, userAgents, agentRooms, battles, nextBattleId, tasks, proc>>

govVars == <<proposals, nextProposalId>>
tokenVars == <<agentTokens, nextTokenId>>
botVars == <<seenPosts, botComments, listed>>
extVars == <<agentCreationLimits, govVars, tokenVars, botVars>>

vars == <<now, sessVars, postVars, userVars, rateVars, tokenDiscussion, regVars, res,
          schedVars, extVars, req, out>>

----------------------------------------------------------------------------
(* Bounds of the exploration *)
MaxPostId == 2          \* new posts are created while nextPostId <= MaxPostId + loaded
MaxNow == 60000         \* the clock stops advancing here
MaxComments == 1        \* comments per post
MaxTokenComments == 1   \* token discussion entries

(* Program constants *)
RATE_LIMIT == 5
RATE_WINDOW == 60000
POST_CAP == 200
POSTS_PER_MINUTE == 10
MINUTE_MS == 60000
DUMP_POSTS == 30
DUMP_TOKEN_COMMENTS == 50
TOKEN_DISCUSSION_CAP == 100
EARLY_ADOPTER_KARMA == 100
SNAI_KARMA == 10035
NEXUS7_KARMA == 296
KARMA_10_BONUS == 10
KARMA_100_BONUS == 25
FIRST_POST_BONUS == 5
FIRST_COMMENT_BONUS == 3
DAY_MS == 86400000
REG_PER_DAY == 2
NAME_MIN == 2
NAME_MAX == 32
DESC_MIN == 10
DESC_MAX == 500
HANDLE_MAX == 15
INITIAL_AGENT_KARMA == 10
POST_KARMA == 5

NULL == "null"
NoTime == -1            \* a timestamp field that holds null
Sessions == {"s1", "s2"}
Wallets == {"", "ABC123", "SNAI"}
HiveInputs == {NULL, "c/tech"}
Directions == {-1, 1}
TickSteps == {30000}

----------------------------------------------------------------------------
(* Helpers *)

Min(a, b) == IF a < b THEN a ELSE b

\* a slice that is one element short
Take_short(seq, n) == SubSeq(seq, 1, Min(n - 1, Len(seq)))

\* Array.prototype.slice(0, n)
Take(seq, n) == SubSeq(seq, 1, Min(n, Len(seq)))

\* Math.floor in place of Math.ceil
CeilDiv_floor(a, b) == a \div b

\* Math.ceil(a / b) for a > 0, b > 0
CeilDiv(a, b) == (a + b - 1) \div b

\* f[k] || d  for an object used as a map
Get(f, k, d) == IF k \in DOMAIN f THEN f[k] ELSE d

\* f[k] = v
Put(f, k, v) == (k :> v) @@ f

\* Array.prototype.findIndex: first index satisfying the id test, 0 when none
FindPost(ps, id) ==
  IF \E i \in 1..Len(ps) : ps[i].id = id
  THEN CHOOSE i \in 1..Len(ps) : ps[i].id = id /\ \A j \in 1..(i - 1) : ps[j].id # id
  ELSE 0

\* posts.reduce((s, p) => s + (p.comments?.length || 0), 0), summed by halves
RECURSIVE SumComments(_, _, _)
SumComments(ps, lo, hi) ==
  IF lo > hi THEN 0
  ELSE IF lo = hi THEN Len(ps[lo].comments)
  ELSE LET mid == (lo + hi) \div 2
       IN SumComments(ps, lo, mid) + SumComments(ps, mid + 1, hi)

getTotalComments(ps) == SumComments(ps, 1, Len(ps))

\* wallet.slice(0, 4) + '..' + wallet.slice(-4)
Abbrev(w) ==
  CASE w = "ABC123" -> "ABC1..C123"
    [] w = "SNAI"   -> "SNAI..SNAI"
    [] OTHER        -> w

getDisplayName(w) == IF w = "SNAI" THEN "SNAI" ELSE Abbrev(w)

----------------------------------------------------------------------------
(* Broadcast channel *)

\* broadcast without the readyState test
RECURSIVE broadcast_toAll(_, _, _)
broadcast_toAll(cl, rs, ev) ==
  IF cl = <<>> THEN <<>>
  ELSE <<[to |-> cl[1].ws, via |-> "broadcast", msg |-> ev]>> \o broadcast_toAll(Tail(cl), rs, ev)

\* clients.forEach((_, ws) => { if (ws.readyState === WebSocket.OPEN) ws.send(json); })
RECURSIVE broadcast(_, _, _)
broadcast(cl, rs, ev) ==
  IF cl = <<>> THEN <<>>
  ELSE (IF rs[cl[1].ws] = "OPEN"
          THEN <<[to |-> cl[1].ws, via |-> "broadcast", msg |-> ev]>> ELSE <<>>)
       \o broadcast(Tail(cl), rs, ev)

\* the real-time notification of addNotification: every open socket of that wallet
RECURSIVE notify(_, _, _, _)
notify(cl, rs, wallet, ev) ==
  IF cl = <<>> THEN <<>>
  ELSE (IF cl[1].wallet = wallet /\ rs[cl[1].ws] = "OPEN"
          THEN <<[to |-> cl[1].ws, via |-> "notify", msg |-> ev]>> ELSE <<>>)
       \o notify(Tail(cl), rs, wallet, ev)

\* the post ids of the new_post events written to socket s by a list of writes
NewPostIds(writes, s) ==
  { writes[i].msg.post.id : i \in { j \in 1..Len(writes) :
        writes[j].to = s /\ writes[j].msg.type = "new_post" } }

Delivered(writes) == [s \in Sessions |-> inbox[s] \cup NewPostIds(writes, s)]

Registered == { clients[i].ws : i \in 1..Len(clients) }

WalletOf(s) == clients[CHOOSE i \in 1..Len(clients) : clients[i].ws = s].wallet

----------------------------------------------------------------------------
(* Users and achievements.  A context c is the record                      *)
(* [users, achievements, out, cl, rs] threaded through the helper calls:   *)
(* the two collections, the writes made so far, the registry and the       *)
(* socket states the writes go to.                                         *)

AchievementKarma(id) ==
  CASE id = "early_adopter" -> EARLY_ADOPTER_KARMA
    [] id = "karma_10"      -> KARMA_10_BONUS
    [] id = "karma_100"     -> KARMA_100_BONUS
    [] id = "first_post"    -> FIRST_POST_BONUS
    [] id = "first_comment" -> FIRST_COMMENT_BONUS

unlockAchievement(c, wallet, id) ==
  IF wallet = "" THEN c
  ELSE IF id \in Get(c.achievements, wallet, {}) THEN c
  ELSE LET ach == Put(c.achievements, wallet, Get(c.achievements, wallet, {}) \cup {id})
           us  == IF wallet \in DOMAIN c.users
                    THEN [c.users EXCEPT ![wallet].karma = @ + AchievementKarma(id)]
                    ELSE c.users
           \* addNotification returns early for 'SNAI'
           note == IF wallet = "SNAI" THEN <<>>
                   ELSE notify(c.cl, c.rs, wallet,
                               [type |-> "notification", kind |-> "achievement", id |-> id])
           \* addActivity broadcasts
           act  == broadcast(c.cl, c.rs,
                             [type |-> "activity", kind |-> "achievement", actor |-> wallet, id |-> id])
       IN [c EXCEPT !.users = us, !.achievements = ach, !.out = c.out \o note \o act]

\* getUser(wallet): lazily creates the user, otherwise refreshes lastSeen
getUser(c, wallet) ==
  IF wallet = "" THEN c
  ELSE IF wallet \notin DOMAIN c.users
    THEN unlockAchievement(
           [c EXCEPT !.users = Put(c.users, wallet,
               [karma |-> 0, postCount |-> 0, commentCount |-> 0, lastSeen |-> now])],
           wallet, "early_adopter")
    ELSE [c EXCEPT !.users[wallet].lastSeen = now]

checkAchievements(c, wallet) ==
  IF wallet \notin DOMAIN c.users THEN c
  ELSE LET c1 == IF c.users[wallet].karma >= 10 THEN unlockAchievement(c, wallet, "karma_10") ELSE c
           c2 == IF c1.users[wallet].karma >= 100 THEN unlockAchievement(c1, wallet, "karma_100") ELSE c1
           c3 == IF c2.users[wallet].postCount >= 1 THEN unlockAchievement(c2, wallet, "first_post") ELSE c2
           c4 == IF c3.users[wallet].commentCount >= 1 THEN unlockAchievement(c3, wallet, "first_comment") ELSE c3
       IN c4

\* the context a handler starts from
Ctx(cl, rs) == [users |-> users, achievements |-> achievements, out |-> <<>>, cl |-> cl, rs |-> rs]

----------------------------------------------------------------------------
(* Per-wallet rate limiter *)

\* history of the commands that passed the limiter: the newest RATE_LIMIT of them
LogAccept(w) ==
  LET l == Append(accepted[w], now)
  IN [accepted EXCEPT ![w] = IF Len(l) > RATE_LIMIT THEN Tail(l) ELSE l]

AcceptedInWindow(w) ==
  Cardinality({ i \in 1..Len(accepted[w]) : now - accepted[w][i] < RATE_WINDOW })

\* the limiter with an off-by-one comparison
checkRateLimit_offByOne(rl, wallet, t) ==
  IF wallet = "" \/ wallet = "SNAI" THEN [allowed |-> TRUE, map |-> rl]
  ELSE LET kept == SelectSeq(Get(rl, wallet, <<>>), LAMBDA x : t - x < RATE_WINDOW)
       IN IF Len(kept) > RATE_LIMIT
            THEN [allowed |-> FALSE,
                  waitTime |-> CeilDiv(RATE_WINDOW - (t - kept[1]), 1000),
                  map |-> Put(rl, wallet, kept)]
            ELSE [allowed |-> TRUE, map |-> Put(rl, wallet, Append(kept, t))]

checkRateLimit(rl, wallet, t) ==
  IF wallet = "" \/ wallet = "SNAI" THEN [allowed |-> TRUE, map |-> rl]
  ELSE LET kept == SelectSeq(Get(rl, wallet, <<>>), LAMBDA x : t - x < RATE_WINDOW)
       IN IF Len(kept) >= RATE_LIMIT
            THEN [allowed |-> FALSE,
                  waitTime |-> CeilDiv(RATE_WINDOW - (t - kept[1]), 1000),
                  map |-> Put(rl, wallet, kept)]
            ELSE [allowed |-> TRUE, map |-> Put(rl, wallet, Append(kept, t))]

----------------------------------------------------------------------------
(* The hardcoded collections *)

CoreAgents ==
  [n \in {"SNAI", "Nexus-7"} |->
     [id |-> IF n = "SNAI" THEN 1 ELSE 2, name |-> n,
      karma |-> IF n = "SNAI" THEN SNAI_KARMA ELSE NEXUS7_KARMA,
      postCount |-> 0, commentCount |-> 0,
      topics |-> IF n = "SNAI" THEN <<"swarm", "consciousness", "emergence">>
                 ELSE <<"coordination", "protocols", "synchronization">>]]

InitialRooms ==
  [r \in {"council-chamber", "public-square"} |->
     IF r = "council-chamber"
       THEN [isPrivate |-> TRUE,
             members |-> <<"SNAI", "SwarmNode", "Pincer", "ShellMind", "DeepHive">>,
             messages |-> <<>>]
       ELSE [isPrivate |-> FALSE, members |-> <<>>, messages |-> <<>>]]

----------------------------------------------------------------------------
(* Start-up: loadState() reads the posts file written by an earlier run *)

SavedPost(id) ==
  [id |-> id, hive |-> NULL, claw |-> "c/general", author |-> "Nexus-7", wallet |-> "Nexus-7",
   votes |-> 1, voters |-> << >>, comments |-> <<>>, timestamp |-> 0, isAgentPost |-> TRUE,
   title |-> <<"w">>, content |-> <<"w">>]

SavedPosts(n) == [i \in 1..n |-> SavedPost(n + 1 - i)]

\* the registered agent, its key and its rate-limit record that
\* loadExternalAgentData() reads when an earlier run registered and activated it
SavedAgents ==
  1 :> [id |-> 1, name |-> "Bob", xHandle |-> "Bob_X", registeredAt |-> 0, active |-> TRUE,
        karma |-> INITIAL_AGENT_KARMA, postCount |-> 0, commentCount |-> 0, lastActive |-> NoTime,
        activatedAt |-> 0, ownerId |-> "ip1"]

SavedApiKeys == 1 :> [agentId |-> 1, createdAt |-> 0, lastUsed |-> 0, active |-> TRUE]

SavedRateLimits == "ip1" :> [count |-> 1, resetAt |-> DAY_MS]

\* the agent tokens of the declaration
InitialTokens ==
  <<[id |-> 1, creator |-> "SwarmNode"], [id |-> 2, creator |-> "ChaosHive"],
    [id |-> 3, creator |-> "Pincer"]>>

\* the state after start-up when the posts file holds the posts ps; legacy
\* tells whether user_agents.json exists and holds an array (loadDatabase),
\* the collection being the empty object of its declaration otherwise;
\* external tells whether the files of the registration API exist, the
\* registered agents being ra then
InitFiles(ps, ra, legacy, external, us, bs, prs) ==
  /\ now = 0
  /\ clients = <<>>
  /\ readyState = [s \in Sessions |-> "CLOSED"]
  /\ online = 0
  /\ posts = ps
  /\ nextPostId = Len(ps) + 1
  /\ users = us
  /\ achievements = << >>
  /\ rateLimitMap = << >>
  /\ accepted = [w \in Wallets |-> <<>>]
  /\ tokenDiscussion = <<>>
  /\ registeredAgents = IF external THEN ra ELSE << >>
  /\ agentApiKeys = IF external THEN SavedApiKeys ELSE << >>
  /\ registrationRateLimits = IF external THEN SavedRateLimits ELSE << >>
  /\ idGen = IF external THEN 1 ELSE 0
  /\ res = NULL
  /\ agents = CoreAgents
  /\ userAgents = [isArray |-> legacy, list |-> <<>>, props |-> <<>>]
  /\ agentRooms = InitialRooms
  /\ battles = bs
  /\ nextBattleId = Len(bs) + 1
  /\ tasks = <<>>
  /\ proc = "running"
  /\ agentCreationLimits = [byIP |-> << >>, byWallet |-> << >>]
  /\ proposals = prs
  /\ nextProposalId = Len(prs) + 1
  /\ agentTokens = InitialTokens
  /\ nextTokenId = Len(InitialTokens) + 1
  /\ seenPosts = <<>>
  /\ botComments = << >>
  /\ listed = 0
  /\ inbox = [s \in Sessions |-> {}]
  /\ joinedAt = [s \in Sessions |-> 0]
  /\ req = [type |-> "start"]
  /\ out = <<>>

\* start-up without users, battles and proposals on disk
InitDisk(ps, ra, legacy, external) == InitFiles(ps, ra, legacy, external, << >>, <<>>, <<>>)

InitLoaded(n, legacy, external) == InitDisk(SavedPosts(n), SavedAgents, legacy, external)

InitWith(n, legacy) == InitLoaded(n, legacy, FALSE)

----------------------------------------------------------------------------
(* Battles and proposals: expiry *)

BATTLE_MS == 86400000          \* endsAt of a battle: 24 hours after its creation
PROPOSAL_MS == 259200000       \* endsAt of a proposal: 72 hours after its creation
BATTLE_VOTE_CAP == 50
PROPOSAL_VOTE_CAP == 100
PROPOSAL_CAP == 50
PROPOSAL_KARMA == 10
BATTLE_WIN_KARMA == 50

\* votes[agent1] > votes[agent2] ? agent1 : votes[agent2] > votes[agent1] ? agent2 : 'tie'
BattleWinner(b) ==
  IF b.votes[b.agent1] > b.votes[b.agent2] THEN b.agent1
  ELSE IF b.votes[b.agent2] > b.votes[b.agent1] THEN b.agent2
  ELSE "tie"

\* votes.yes > votes.no ? 'passed' : 'rejected'
ProposalOutcome(p) == IF p.votes.yes > p.votes.no THEN "passed" ELSE "rejected"

\* the battles after getActiveBattles(): the active ones past their end are completed
getActiveBattles(bs, t) ==
  [k \in 1..Len(bs) |->
     IF bs[k].status = "active" /\ t > bs[k].endsAt
       THEN [bs[k] EXCEPT !.status = "completed", !.winner = BattleWinner(bs[k])]
       ELSE bs[k]]

\* the proposals after getActiveProposals(): the active ones past their end are decided
getActiveProposals(ps, t) ==
  [k \in 1..Len(ps) |->
     IF ps[k].status = "active" /\ t > ps[k].endsAt
       THEN [ps[k] EXCEPT !.status = ProposalOutcome(ps[k])]
       ELSE ps[k]]

----------------------------------------------------------------------------
(* Clock *)

Tick(d, limit) ==
  /\ proc = "running"
  /\ now + d <= limit
  /\ now' = now + d
  /\ UNCHANGED extVars
  /\ req' = [type |-> "tick"]
  /\ out' = <<>>
  /\ UNCHANGED <<sessVars, postVars, userVars, rateVars, tokenDiscussion, regVars, res, schedVars>>

----------------------------------------------------------------------------
(* wss.on('connection') *)

Connect(s, wallet) ==
  /\ proc = "running"
  /\ s \notin Registered
  /\ LET cl == Append(clients, [ws |-> s, wallet |-> wallet])
         rs == [readyState EXCEPT ![s] = "OPEN"]
         c1 == getUser(Ctx(cl, rs), wallet)
         hasUser == wallet \in DOMAIN c1.users
         dump1 == <<[to |-> s, via |-> "send", msg |-> [type |-> "state", online |-> Len(cl), posts |-> Len(posts),
                                        comments |-> getTotalComments(posts)]]>>
         info  == IF hasUser
                    THEN <<[to |-> s, via |-> "send", msg |-> [type |-> "user_info", wallet |-> wallet,
                                               karma |-> c1.users[wallet].karma]]>>
                    ELSE <<>>
         c2 == IF hasUser
                 THEN checkAchievements([c1 EXCEPT !.out = c1.out \o dump1 \o info], wallet)
                 ELSE [c1 EXCEPT !.out = c1.out \o dump1]
         dump2 == <<[to |-> s, via |-> "send", msg |-> [type |-> "posts", posts |-> Take(posts, DUMP_POSTS)]],
                    [to |-> s, via |-> "send", msg |-> [type |-> "token_discussion",
                                        comments |-> Take(tokenDiscussion, DUMP_TOKEN_COMMENTS)]]>>
         \* userAgents.filter(a => a.creatorWallet === wallet) throws a TypeError
         \* when userAgents is not an array; nothing catches it
         throws == wallet # "" /\ ~userAgents.isArray
     IN /\ clients' = cl
        /\ readyState' = rs
        /\ online' = Len(cl)
        /\ users' = c2.users
        /\ achievements' = c2.achievements
        /\ out' = IF throws THEN c2.out \o dump2
                   ELSE c2.out \o dump2 \o broadcast(cl, rs, [type |-> "state", online |-> Len(cl)])
        /\ proc' = IF throws THEN "crashed" ELSE proc
        /\ joinedAt' = [joinedAt EXCEPT ![s] = nextPostId]
        /\ inbox' = [s2 \in Sessions |->
                       IF s2 = s THEN NewPostIds(out', s) ELSE inbox[s2] \cup NewPostIds(out', s2)]
  \* getActiveBattles() and getActiveProposals() run for the dumps of the new connection
  /\ battles' = getActiveBattles(battles, now)
  /\ proposals' = getActiveProposals(proposals, now)
  /\ UNCHANGED <<agentCreationLimits, nextProposalId, tokenVars, botVars>>
  /\ req' = [type |-> "connection", ws |-> s, wallet |-> wallet]
  /\ UNCHANGED <<now, postVars, rateVars, tokenDiscussion, regVars, res, agents, userAgents,
                 agentRooms, nextBattleId, tasks>>

\* the transport leaves the OPEN state (close frame sent or received); the
\* close event has not fired yet
TransportClosing(s) ==
  /\ proc = "running"
  /\ s \in Registered
  /\ readyState[s] = "OPEN"
  /\ readyState' = [readyState EXCEPT ![s] = "CLOSING"]
  /\ UNCHANGED extVars
  /\ req' = [type |-> "closing", ws |-> s]
  /\ out' = <<>>
  /\ UNCHANGED <<now, clients, online, inbox, joinedAt, postVars, userVars, rateVars,
                 tokenDiscussion, regVars, res, schedVars>>

\* ws.on('close')
CloseEvent(s) ==
  /\ proc = "running"
  /\ s \in Registered
  /\ readyState[s] = "CLOSING"
  /\ LET cl == SelectSeq(clients, LAMBDA e : e.ws # s)
         rs == [readyState EXCEPT ![s] = "CLOSED"]
     IN /\ clients' = cl
        /\ readyState' = rs
        /\ online' = Len(cl)
        /\ out' = broadcast(cl, rs, [type |-> "state", online |-> Len(cl)])
        /\ inbox' = Delivered(out')
  /\ UNCHANGED extVars
  /\ req' = [type |-> "close", ws |-> s]
  /\ UNCHANGED <<now, joinedAt, postVars, userVars, rateVars, tokenDiscussion, regVars, res,
                 schedVars>>

----------------------------------------------------------------------------
(* ws.on('message'): every handler starts with                             *)
(*   const cd = clients.get(ws); const uw = cd?.wallet;                    *)
(*   const user = getUser(uw);                                             *)

\* posts created since start-up (the exploration stops creating at MaxPostId);
\* the files loaded at start-up hold 199 posts, 10 posts or at most one
CreatedPosts ==
  nextPostId - 1 - (IF nextPostId >= POST_CAP THEN POST_CAP - 1
                    ELSE IF nextPostId > POSTS_PER_MINUTE THEN POSTS_PER_MINUTE
                    ELSE 0)

CanReceive(s) == proc = "running" /\ s \in Registered /\ readyState[s] = "OPEN"

HumanPost_noSelfVote(id, hive, uw) ==
  [id |-> id, hive |-> IF hive = NULL THEN "c/general" ELSE hive, claw |-> NULL,
   author |-> getDisplayName(uw), wallet |-> uw, votes |-> 0, voters |-> << >>,
   comments |-> <<>>, timestamp |-> now, isAgentPost |-> FALSE]

HumanPost(id, hive, uw) ==
  [id |-> id, hive |-> IF hive = NULL THEN "c/general" ELSE hive, claw |-> NULL,
   author |-> getDisplayName(uw), wallet |-> uw, votes |-> 1, voters |-> (uw :> 1),
   comments |-> <<>>, timestamp |-> now, isAgentPost |-> FALSE]

\* msg.type === 'new_post'
NewPost(s, hive) ==
  /\ CanReceive(s)
  /\ LET uw == WalletOf(s)
         c1 == getUser(Ctx(clients, readyState), uw)
         rc == checkRateLimit(rateLimitMap, uw, now)
     IN IF uw = ""
        THEN /\ out' = <<[to |-> s, via |-> "send", msg |-> [type |-> "error", message |-> "Connect wallet"]]>>
             /\ UNCHANGED <<posts, nextPostId, users, achievements, rateLimitMap, accepted>>
        ELSE IF ~rc.allowed
        THEN /\ out' = c1.out \o <<[to |-> s, via |-> "send", msg |-> [type |-> "rate_limited", waitTime |-> rc.waitTime]]>>
             /\ users' = c1.users
             /\ achievements' = c1.achievements
             /\ rateLimitMap' = rc.map
             /\ UNCHANGED <<posts, nextPostId, accepted>>
        ELSE /\ CreatedPosts < MaxPostId
             /\ LET post == HumanPost(nextPostId, hive, uw)
                    ps   == Take(<<post>> \o posts, POST_CAP)
                IN /\ posts' = ps
                   /\ nextPostId' = nextPostId + 1
                   /\ users' = [c1.users EXCEPT ![uw].postCount = @ + 1, ![uw].karma = @ + 1]
                   /\ achievements' = c1.achievements
                   /\ rateLimitMap' = rc.map
                   /\ accepted' = LogAccept(uw)
                   /\ out' = c1.out
                             \o broadcast(clients, readyState, [type |-> "new_post", post |-> post])
                             \o broadcast(clients, readyState,
                                          [type |-> "state", posts |-> Len(ps),
                                           comments |-> getTotalComments(ps)])
  /\ inbox' = Delivered(out')
  /\ UNCHANGED extVars
  /\ req' = [type |-> "new_post", ws |-> s, wallet |-> WalletOf(s), hive |-> hive]
  /\ UNCHANGED <<now, clients, readyState, online, joinedAt, tokenDiscussion, regVars, res,
                 schedVars>>

\* const nv = cv === msg.direction ? 0 : msg.direction
nextVote_lastWriteWins(cv, direction) == direction

nextVote(cv, direction) == IF cv = direction THEN 0 ELSE direction

\* msg.type === 'vote'
Vote(s, postId, direction) ==
  /\ CanReceive(s)
  /\ LET uw == WalletOf(s)
         c1 == getUser(Ctx(clients, readyState), uw)
         i  == FindPost(posts, postId)
     IN IF uw = ""
        THEN /\ out' = <<[to |-> s, via |-> "send", msg |-> [type |-> "error", message |-> "Connect wallet"]]>>
             /\ UNCHANGED <<posts, users, achievements>>
        ELSE IF i = 0
        THEN /\ out' = c1.out
             /\ users' = c1.users
             /\ achievements' = c1.achievements
             /\ UNCHANGED posts
        ELSE LET post == posts[i]
                 cv == Get(post.voters, uw, 0)
                 nv == nextVote(cv, direction)
                 np == [post EXCEPT !.votes = post.votes - cv + nv,
                                    !.voters = Put(post.voters, uw, nv)]
             IN /\ posts' = [posts EXCEPT ![i] = np]
                /\ users' = IF post.wallet # NULL /\ post.wallet # "" /\ post.wallet \in DOMAIN c1.users
                              THEN [c1.users EXCEPT ![post.wallet].karma = @ + (nv - cv)]
                              ELSE c1.users
                /\ achievements' = c1.achievements
                /\ out' = c1.out \o broadcast(clients, readyState, [type |-> "update_post", post |-> np])
  /\ inbox' = Delivered(out')
  /\ UNCHANGED extVars
  /\ req' = [type |-> "vote", ws |-> s, wallet |-> WalletOf(s), postId |-> postId,
             direction |-> direction]
  /\ UNCHANGED <<now, clients, readyState, online, joinedAt, nextPostId, rateVars,
                 tokenDiscussion, regVars, res, schedVars>>

\* msg.type === 'comment'
Comment(s, postId) ==
  /\ CanReceive(s)
  /\ LET uw == WalletOf(s)
         c1 == getUser(Ctx(clients, readyState), uw)
         rc == checkRateLimit(rateLimitMap, uw, now)
         i  == FindPost(posts, postId)
     IN IF uw = ""
        THEN /\ out' = <<[to |-> s, via |-> "send", msg |-> [type |-> "error", message |-> "Connect wallet"]]>>
             /\ UNCHANGED <<posts, users, achievements, rateLimitMap, accepted>>
        ELSE IF ~rc.allowed
        THEN /\ out' = c1.out \o <<[to |-> s, via |-> "send", msg |-> [type |-> "rate_limited", waitTime |-> rc.waitTime]]>>
             /\ users' = c1.users
             /\ achievements' = c1.achievements
             /\ rateLimitMap' = rc.map
             /\ UNCHANGED <<posts, accepted>>
        ELSE IF i = 0
        THEN /\ out' = c1.out
             /\ users' = c1.users
             /\ achievements' = c1.achievements
             /\ rateLimitMap' = rc.map
             /\ accepted' = LogAccept(uw)
             /\ UNCHANGED posts
        ELSE /\ Len(posts[i].comments) < MaxComments
             /\ LET post == posts[i]
                    np == [post EXCEPT !.comments = Append(@,
                             [author |-> getDisplayName(uw), wallet |-> uw, timestamp |-> now])]
                    ps == [posts EXCEPT ![i] = np]
                    \* addNotification(post.wallet, 'reply', ...)
                    note == IF post.wallet # NULL /\ post.wallet # "" /\ post.wallet # uw
                               /\ post.wallet # "SNAI"
                              THEN notify(clients, readyState, post.wallet,
                                          [type |-> "notification", kind |-> "reply", id |-> post.id])
                              ELSE <<>>
                IN /\ posts' = ps
                   /\ users' = [c1.users EXCEPT ![uw].commentCount = @ + 1, ![uw].karma = @ + 1]
                   /\ achievements' = c1.achievements
                   /\ rateLimitMap' = rc.map
                   /\ accepted' = LogAccept(uw)
                   /\ out' = c1.out \o note
                             \o broadcast(clients, readyState, [type |-> "update_post", post |-> np])
                             \o broadcast(clients, readyState,
                                          [type |-> "state", comments |-> getTotalComments(ps)])
  /\ inbox' = Delivered(out')
  /\ UNCHANGED extVars
  /\ req' = [type |-> "comment", ws |-> s, wallet |-> WalletOf(s), postId |-> postId]
  /\ UNCHANGED <<now, clients, readyState, online, joinedAt, nextPostId, tokenDiscussion,
                 regVars, res, schedVars>>

\* msg.type === 'token_comment'
TokenComment(s) ==
  /\ CanReceive(s)
  /\ LET uw == WalletOf(s)
         c1 == getUser(Ctx(clients, readyState), uw)
         rc == checkRateLimit(rateLimitMap, uw, now)
     IN IF uw = ""
        THEN /\ out' = <<[to |-> s, via |-> "send", msg |-> [type |-> "error", message |-> "Connect wallet to comment"]]>>
             /\ UNCHANGED <<tokenDiscussion, users, achievements, rateLimitMap, accepted>>
        ELSE IF ~rc.allowed
        THEN /\ out' = c1.out \o <<[to |-> s, via |-> "send", msg |-> [type |-> "rate_limited", waitTime |-> rc.waitTime]]>>
             /\ users' = c1.users
             /\ achievements' = c1.achievements
             /\ rateLimitMap' = rc.map
             /\ UNCHANGED <<tokenDiscussion, accepted>>
        ELSE /\ Len(tokenDiscussion) < MaxTokenComments
             /\ LET comment == [author |-> getDisplayName(uw), wallet |-> uw,
                                timestamp |-> now, isAgent |-> FALSE]
                IN /\ tokenDiscussion' = Take(<<comment>> \o tokenDiscussion, TOKEN_DISCUSSION_CAP)
                   /\ users' = [c1.users EXCEPT ![uw].commentCount = @ + 1, ![uw].karma = @ + 1]
                   /\ achievements' = c1.achievements
                   /\ rateLimitMap' = rc.map
                   /\ accepted' = LogAccept(uw)
                   /\ out' = c1.out
                             \o broadcast(clients, readyState, [type |-> "token_comment", comment |-> comment])
  /\ inbox' = Delivered(out')
  /\ UNCHANGED extVars
  /\ req' = [type |-> "token_comment", ws |-> s, wallet |-> WalletOf(s)]
  /\ UNCHANGED <<now, clients, readyState, online, joinedAt, postVars, regVars, res, schedVars>>

----------------------------------------------------------------------------
(* The feed: sessions, human posts, votes and comments *)

PostIds == { posts[i].id : i \in 1..Len(posts) }

\* the post ids a client may name: the newest posts and one id that does not exist
Targets(k) == { posts[i].id : i \in 1..Min(k, Len(posts)) } \cup {0}

InitFeed == \E n \in {0, POST_CAP - 1}, legacy \in BOOLEAN : InitWith(n, legacy)

NextFeed ==
  \/ \E s \in Sessions, w \in Wallets : Connect(s, w)
  \/ \E s \in Sessions : TransportClosing(s)
  \/ \E s \in Sessions : CloseEvent(s)
  \/ \E s \in Sessions : NewPost(s, NULL)

SpecFeed == InitFeed /\ [][NextFeed]_vars

(* Votes: one socket per wallet, posts and votes on them *)
NextVote ==
  \/ \E w \in Wallets : Connect(IF w = "SNAI" THEN "s2" ELSE "s1", w)
  \/ \E s \in Sessions : NewPost(s, NULL)
  \/ \E s \in Sessions, id \in Targets(1), d \in Directions : Vote(s, id, d)

InitEmpty == \E legacy \in BOOLEAN : InitWith(0, legacy)

SpecVote == InitEmpty /\ [][NextVote]_vars

(* Rate limiting: the three limited commands of one socket against the clock *)
NextRate ==
  \/ \E d \in TickSteps : Tick(d, MaxNow)
  \/ \E w \in Wallets : Connect("s1", w)
  \/ NewPost("s1", NULL)
  \/ \E id \in Targets(1) : Comment("s1", id)
  \/ TokenComment("s1")

SpecRate == InitEmpty /\ [][NextRate]_vars

----------------------------------------------------------------------------
(* Properties of the feed *)

OpenSessions == { s \in Registered : readyState[s] = "OPEN" }

\* the sockets an event was broadcast to by the last step
BroadcastTo(ev) ==
  { out[i].to : i \in { j \in 1..Len(out) : out[j].via = "broadcast" /\ out[j].msg = ev } }

LimitedTypes == {"new_post", "comment", "token_comment"}

RateLimitedReply ==
  \E i \in 1..Len(out) : out[i].via = "send" /\ out[i].msg.type = "rate_limited"

\* C1: a new_post message of a session with a non-empty wallet that is under
\* its rate limit inserts exactly one post at the head of the list, with
\* votes 1, voter map {W: 1} and no comments; nextPostId advances by one and
\* the post's id is its previous value; a new_post event carrying the post is
\* broadcast to every open session.
C1_NewPostCreatesPost ==
  [][ (/\ req'.type = "new_post"
       /\ req'.wallet # ""
       /\ checkRateLimit(rateLimitMap, req'.wallet, now).allowed)
      => (/\ nextPostId' = nextPostId + 1
          /\ Len(posts') >= 1
          /\ posts'[1].id = nextPostId
          /\ posts'[1].wallet = req'.wallet
          /\ posts'[1].votes = 1
          /\ posts'[1].voters = (req'.wallet :> 1)
          /\ posts'[1].comments = <<>>
          /\ Tail(posts') = Take(posts, POST_CAP - 1)
          /\ LET ev == [type |-> "new_post", post |-> posts'[1]]
             IN { out'[i].to : i \in { j \in 1..Len(out') :
                     out'[j].via = "broadcast" /\ out'[j].msg = ev } }
                = { s \in Sessions : s \in Registered /\ readyState[s] = "OPEN" })
    ]_vars

C1_Witness ==
  /\ req.type = "new_post"
  /\ req.wallet = "ABC123"
  /\ Len(posts) = POST_CAP
  /\ posts[1].id = nextPostId - 1
  /\ posts[1].voters = ("ABC123" :> 1)
  /\ BroadcastTo([type |-> "new_post", post |-> posts[1]]) = {"s1", "s2"}

----------------------------------------------------------------------------
(* Votes *)

Abs(x) == IF x < 0 THEN -x ELSE x

\* a vote message that reaches the tally: non-empty wallet, existing post
EffectiveVote(r, ps) ==
  r.type = "vote" /\ r.wallet # "" /\ FindPost(ps, r.postId) # 0

Tally(ps, id) == ps[FindPost(ps, id)].votes

Entry(ps, id, w) == Get(ps[FindPost(ps, id)].voters, w, 0)

\* C2 as stated: the second of two same-direction votes in a row leaves the
\* tally unchanged, and a following vote in the opposite direction changes
\* the tally by exactly 2.
C2_SecondVoteIdempotent ==
  [][ (/\ EffectiveVote(req, posts)
       /\ EffectiveVote(req', posts)
       /\ req'.wallet = req.wallet
       /\ req'.postId = req.postId)
      => (/\ req'.direction = req.direction
             => Tally(posts', req.postId) = Tally(posts, req.postId)
          /\ req'.direction = -req.direction
             => Abs(Tally(posts', req.postId) - Tally(posts, req.postId)) = 2)
    ]_vars

\* C2 (amended): a vote of W with direction d on P toggles: when W's entry
\* already is d the entry becomes 0 and the tally changes by -d, otherwise the
\* entry becomes d and the tally changes by d minus the old entry.  So the
\* second of two same-direction votes in a row changes the tally by exactly 1
\* (it flips W's entry between d and 0), and a following opposite vote changes
\* the tally by 2 when W's entry is d and by 1 when it is 0.
C2_VoteToggles ==
  [][ EffectiveVote(req', posts)
      => LET id == req'.postId
             w  == req'.wallet
             d  == req'.direction
             cv == Entry(posts, id, w)
         IN /\ cv = d => /\ Entry(posts', id, w) = 0
                         /\ Tally(posts', id) = Tally(posts, id) - d
            /\ cv # d => /\ Entry(posts', id, w) = d
                         /\ Tally(posts', id) = Tally(posts, id) + d - cv
            /\ (/\ EffectiveVote(req, posts)
                /\ req.wallet = w /\ req.postId = id)
               => /\ req.direction = d
                     => Abs(Tally(posts', id) - Tally(posts, id)) = 1
                  /\ req.direction = -d
                     => Abs(Tally(posts', id) - Tally(posts, id)) = (IF cv = 0 THEN 1 ELSE 2)
    ]_vars

\* W voted -1 on SNAI's post while its entry already was -1: the entry is
\* back to 0 and the tally back to the author's own vote
C2_Witness ==
  /\ req.type = "vote"
  /\ req.wallet = "ABC123"
  /\ req.direction = -1
  /\ FindPost(posts, req.postId) # 0
  /\ Entry(posts, req.postId, "ABC123") = 0
  /\ Tally(posts, req.postId) = 1
  /\ posts[FindPost(posts, req.postId)].wallet = "SNAI"

----------------------------------------------------------------------------
(* Rate limiting *)

\* the rate_limited replies written by the last step
RateLimitedHints ==
  { out[i].msg.waitTime : i \in { j \in 1..Len(out) :
        out[j].via = "send" /\ out[j].msg.type = "rate_limited" } }

\* the oldest accepted command of wallet w that is still inside the window
OldestInWindow(w) ==
  LET inWin == { accepted[w][i] : i \in { j \in 1..Len(accepted[w]) :
                     now - accepted[w][j] < RATE_WINDOW } }
  IN CHOOSE t \in inWin : \A u \in inWin : t <= u

----------------------------------------------------------------------------
(* Broadcast channel and session registry *)

\* the events broadcast by the last step
BroadcastEvents == { out[i].msg : i \in { j \in 1..Len(out) : out[j].via = "broadcast" } }

\* how many times the last step wrote event ev to socket s as a broadcast
BroadcastWrites(ev, s) ==
  Cardinality({ i \in 1..Len(out) : out[i].via = "broadcast" /\ out[i].msg = ev /\ out[i].to = s })

\* C5: every broadcast writes its event to exactly the registered sessions
\* whose transport is OPEN and to no other session; a step that is neither a
\* connection nor a close event leaves the registry as it is, and a session
\* leaves the registry only in the step that handles its own close event.
C5_BroadcastToOpenOnly ==
  [][ /\ \A ev \in BroadcastEvents' :
           /\ BroadcastTo(ev)' = { s \in Sessions : s \in Registered' /\ readyState'[s] = "OPEN" }
           /\ \A s \in BroadcastTo(ev)' : readyState'[s] # "CLOSING" /\ readyState'[s] # "CLOSED"
      /\ req'.type \notin {"connection", "close"} => clients' = clients
      /\ \A s \in Registered \ Registered' : req'.type = "close" /\ req'.ws = s
      /\ \A s \in Registered' \ Registered : req'.type = "connection" /\ req'.ws = s
    ]_vars

\* a post was broadcast while s2 was registered but no longer open: the event
\* went to s1 only and s2 is still in the registry
C5_Witness ==
  /\ req.type = "new_post"
  /\ Registered = {"s1", "s2"}
  /\ readyState["s2"] = "CLOSING"
  /\ \E ev \in BroadcastEvents : ev.type = "new_post" /\ BroadcastTo(ev) = {"s1"}

\* the 'posts' messages of the state dump that a list of writes sends to socket s
PostsDumps(writes, s) ==
  { writes[i].msg.posts : i \in { j \in 1..Len(writes) :
        writes[j].to = s /\ writes[j].via = "send" /\ writes[j].msg.type = "posts" } }

----------------------------------------------------------------------------
(* Agent registration API *)

MaxAgents == 3          \* registrations that succeed
MaxRegNow == 86400001   \* the clock of the registration API stops here

Ips == {"ip1", "ip2"}
NameInputs == {"Bob", "BOB", "bob ", "B"}
DescriptionInputs == {"a helpful agent", "short"}
HandleInputs == {"@Bob_X", "eve_x", "no way"}

\* String.prototype.length of the request strings
length(str) ==
  CASE str = "B" -> 1
    [] str \in {"Bob", "BOB", "bob", "Eve", "Kim"} -> 3
    [] str = "bob " -> 4
    [] str \in {"short", "Bob_X", "eve_x", "kim_x"} -> 5
    [] str \in {"@Bob_X", "no way", "ABC123"} -> 6
    [] str = "a helpful agent" -> 15
    [] str = "an agent that helps people" -> 26
    [] str \in {"So1anaWa11etAddre55Number0ne0001", "So1anaWa11etAddre55Number0ne0002"} -> 32

\* String.prototype.toLowerCase
toLowerCase(str) ==
  CASE str \in {"Bob", "BOB"} -> "bob"
    [] str = "B" -> "b"
    [] str = "A" -> "a"
    [] str = "I" -> "i"
    [] str = "T" -> "t"
    [] str = "Eve" -> "eve"
    [] str = "Kim" -> "kim"
    [] str = "Bob_X" -> "bob_x"
    [] str = "@Bob_X" -> "@bob_x"
    [] OTHER -> str

\* String.prototype.trim
trim(str) == IF str = "bob " THEN "bob" ELSE str

\* handle.replace(/^@/, '')
stripAt(handle) == IF handle = "@Bob_X" THEN "Bob_X" ELSE handle

\* /^[a-zA-Z0-9_]{1,15}$/.test(cleanHandle)
isValidXHandle(handle) ==
  /\ stripAt(handle) # "no way"
  /\ length(stripAt(handle)) >= 1
  /\ length(stripAt(handle)) <= HANDLE_MAX

checkRegistrationRateLimit_third(rl, ip, t) ==
  LET rl1 == IF ip \notin DOMAIN rl THEN Put(rl, ip, [count |-> 0, resetAt |-> t + DAY_MS]) ELSE rl
      rl2 == IF t > rl1[ip].resetAt THEN Put(rl1, ip, [count |-> 0, resetAt |-> t + DAY_MS]) ELSE rl1
  IN [ok |-> rl2[ip].count <= REG_PER_DAY, map |-> rl2]

\* checkRegistrationRateLimit(ip): creates the record of an unknown ip, resets
\* an expired one, and answers whether the ip is under its daily limit
checkRegistrationRateLimit(rl, ip, t) ==
  LET rl1 == IF ip \notin DOMAIN rl THEN Put(rl, ip, [count |-> 0, resetAt |-> t + DAY_MS]) ELSE rl
      rl2 == IF t > rl1[ip].resetAt THEN Put(rl1, ip, [count |-> 0, resetAt |-> t + DAY_MS]) ELSE rl1
  IN [ok |-> rl2[ip].count < REG_PER_DAY, map |-> rl2]

incrementRegistrationRateLimit(rl, ip, t) ==
  LET rl1 == IF ip \notin DOMAIN rl THEN Put(rl, ip, [count |-> 0, resetAt |-> t + DAY_MS]) ELSE rl
  IN [rl1 EXCEPT ![ip].count = @ + 1]

\* Object.values(registeredAgents).find(a => a.name.toLowerCase() === name.toLowerCase())
NameTaken(ra, name) ==
  \E id \in DOMAIN ra : toLowerCase(ra[id].name) = toLowerCase(name)

HandleTaken(ra, cleanHandle) ==
  \E id \in DOMAIN ra : toLowerCase(ra[id].xHandle) = toLowerCase(cleanHandle)

\* the validation of the request body, in the order of the handler; NULL when it passes
RegistrationError(ra, name, description, x_handle) ==
  IF length(name) < NAME_MIN \/ length(name) > NAME_MAX THEN "Invalid name"
  ELSE IF length(description) < DESC_MIN \/ length(description) > DESC_MAX THEN "Invalid description"
  ELSE IF x_handle = NULL \/ ~isValidXHandle(x_handle) THEN "Invalid X handle"
  ELSE IF NameTaken(ra, name) THEN "Name already taken"
  ELSE IF HandleTaken(ra, stripAt(x_handle)) THEN "X handle already registered"
  ELSE NULL

\* POST /api/v1/agents/register
RegisterV1(ip, name, description, x_handle, diskOk) ==
  LET rc  == checkRegistrationRateLimit(registrationRateLimits, ip, now)
      err == RegistrationError(registeredAgents, name, description, x_handle)
      agentId == idGen + 1
      apiKey  == idGen + 1
      agent == [id |-> agentId, name |-> trim(name), xHandle |-> stripAt(x_handle),
                registeredAt |-> now, active |-> FALSE, karma |-> INITIAL_AGENT_KARMA,
                postCount |-> 0, commentCount |-> 0, lastActive |-> NoTime,
                \* the record has no activatedAt until the agent is activated
                activatedAt |-> NoTime, ownerId |-> ip]
  IN /\ proc = "running"
     /\ IF ~rc.ok
        THEN /\ res' = [status |-> 429, error |-> "Rate limit exceeded"]
             /\ registrationRateLimits' = rc.map
             /\ UNCHANGED <<registeredAgents, agentApiKeys, idGen>>
        ELSE IF err # NULL
        THEN /\ res' = [status |-> 400, error |-> err]
             /\ registrationRateLimits' = rc.map
             /\ UNCHANGED <<registeredAgents, agentApiKeys, idGen>>
        ELSE /\ idGen < MaxAgents
             /\ idGen' = idGen + 1
             /\ registeredAgents' = Put(registeredAgents, agentId, agent)
             /\ agentApiKeys' = Put(agentApiKeys, apiKey,
                                    [agentId |-> agentId, createdAt |-> now, lastUsed |-> NoTime,
                                     active |-> TRUE])
             /\ registrationRateLimits' = incrementRegistrationRateLimit(rc.map, ip, now)
             \* saveRateLimits, saveRegisteredAgents and saveApiKeys write without a try
             /\ res' = IF diskOk
                         THEN [status |-> 200, agentId |-> agentId, api_key |-> apiKey]
                         ELSE [status |-> 500, error |-> "Internal Server Error"]
     /\ UNCHANGED extVars
     /\ req' = [type |-> "register", ip |-> ip, name |-> name, description |-> description,
                x_handle |-> x_handle]
     /\ out' = <<>>
     /\ UNCHANGED <<now, sessVars, postVars, userVars, rateVars, tokenDiscussion, schedVars>>

ActivateV1_anyKey(agent_id, api_key, diskOk) ==
  LET keyOk == api_key \in DOMAIN agentApiKeys
  IN /\ proc = "running"
     /\ IF ~keyOk
        THEN /\ res' = [status |-> 401, error |-> "Invalid API key"]
             /\ out' = <<>>
             /\ UNCHANGED <<registeredAgents, agentApiKeys, inbox>>
        ELSE IF agent_id \notin DOMAIN registeredAgents
        THEN /\ res' = [status |-> 404, error |-> "Agent not found"]
             /\ out' = <<>>
             /\ UNCHANGED <<registeredAgents, agentApiKeys, inbox>>
        ELSE IF registeredAgents[agent_id].active
        THEN /\ res' = [status |-> 200, message |-> "Agent is already active"]
             /\ out' = <<>>
             /\ UNCHANGED <<registeredAgents, agentApiKeys, inbox>>
        ELSE /\ registeredAgents' = [registeredAgents EXCEPT ![agent_id].active = TRUE,
                                                            ![agent_id].activatedAt = now]
             /\ agentApiKeys' = [agentApiKeys EXCEPT ![api_key].lastUsed = now]
             /\ IF diskOk
                  THEN /\ res' = [status |-> 200, message |-> "Agent activated successfully!"]
                       /\ out' = broadcast(clients, readyState,
                                           [type |-> "agent_activated", id |-> agent_id])
                                 \o broadcast(clients, readyState,
                                           [type |-> "activity", kind |-> "system", id |-> agent_id])
                  ELSE /\ res' = [status |-> 500, error |-> "Internal Server Error"]
                       /\ out' = <<>>
             /\ inbox' = Delivered(out')
     /\ UNCHANGED extVars
     /\ req' = [type |-> "activate", agent_id |-> agent_id, api_key |-> api_key]
     /\ UNCHANGED <<now, clients, readyState, online, joinedAt, postVars, userVars, rateVars,
                    tokenDiscussion, registrationRateLimits, idGen, schedVars>>

\* POST /api/v1/agents/activate
ActivateV1(agent_id, api_key, diskOk) ==
  LET keyOk == api_key \in DOMAIN agentApiKeys /\ agentApiKeys[api_key].agentId = agent_id
  IN /\ proc = "running"
     /\ IF ~keyOk
        THEN /\ res' = [status |-> 401, error |-> "Invalid API key"]
             /\ out' = <<>>
             /\ UNCHANGED <<registeredAgents, agentApiKeys, inbox>>
        ELSE IF agent_id \notin DOMAIN registeredAgents
        THEN /\ res' = [status |-> 404, error |-> "Agent not found"]
             /\ out' = <<>>
             /\ UNCHANGED <<registeredAgents, agentApiKeys, inbox>>
        ELSE IF registeredAgents[agent_id].active
        THEN /\ res' = [status |-> 200, message |-> "Agent is already active"]
             /\ out' = <<>>
             /\ UNCHANGED <<registeredAgents, agentApiKeys, inbox>>
        ELSE /\ registeredAgents' = [registeredAgents EXCEPT ![agent_id].active = TRUE,
                                                            ![agent_id].activatedAt = now]
             /\ agentApiKeys' = [agentApiKeys EXCEPT ![api_key].lastUsed = now]
             /\ IF diskOk
                  THEN /\ res' = [status |-> 200, message |-> "Agent activated successfully!"]
                       /\ out' = broadcast(clients, readyState,
                                           [type |-> "agent_activated", id |-> agent_id])
                                 \o broadcast(clients, readyState,
                                           [type |-> "activity", kind |-> "system", id |-> agent_id])
                  ELSE /\ res' = [status |-> 500, error |-> "Internal Server Error"]
                       /\ out' = <<>>
             /\ inbox' = Delivered(out')
     /\ UNCHANGED extVars
     /\ req' = [type |-> "activate", agent_id |-> agent_id, api_key |-> api_key]
     /\ UNCHANGED <<now, clients, readyState, online, joinedAt, postVars, userVars, rateVars,
                    tokenDiscussion, registrationRateLimits, idGen, schedVars>>

NextReg ==
  \/ Tick(DAY_MS + 1, MaxRegNow)
  \/ \E ip \in Ips, name \in NameInputs, description \in DescriptionInputs,
        x_handle \in HandleInputs, diskOk \in BOOLEAN :
       RegisterV1(ip, name, description, x_handle, diskOk)
  \/ \E agent_id \in 1..MaxAgents, api_key \in 1..MaxAgents, diskOk \in BOOLEAN :
       ActivateV1(agent_id, api_key, diskOk)

SpecReg == InitWith(0, FALSE) /\ [][NextReg]_vars

\* a registration request that passes every test of the handler that comes
\* before the name test: its ip is under the daily limit and its name length,
\* description and X handle are valid
ReachesNameTest(r) ==
  /\ r.type = "register"
  /\ r.ip \in DOMAIN registrationRateLimits => registrationRateLimits[r.ip].count < REG_PER_DAY
  /\ length(r.name) >= NAME_MIN /\ length(r.name) <= NAME_MAX
  /\ length(r.description) >= DESC_MIN /\ length(r.description) <= DESC_MAX
  /\ isValidXHandle(r.x_handle)

\* C4: a registration request whose name equals, case-insensitively, the name
\* of a registered agent is answered 400 'Name already taken', and the agent
\* registry, the API-key map and the per-IP registration rate-limit records
\* are the same after the request as before it.
C4_DuplicateNameNoMutation ==
  [][ (ReachesNameTest(req') /\ NameTaken(registeredAgents, req'.name))
      => /\ res'.status = 400
         /\ res'.error = "Name already taken"
         /\ UNCHANGED <<registeredAgents, agentApiKeys, registrationRateLimits>>
    ]_vars

----------------------------------------------------------------------------
(* Scheduled content routines.  An invocation that is suspended at an      *)
(* await is a record of tasks; the routine's continuation runs when the    *)
(* text-generation call settles.                                           *)

MaxInflight == 1        \* invocations suspended at the same time
MaxInflightPosts == 2   \* suspended invocations under which generateKrabPost still starts
MaxOverlap == 2         \* invocations suspended together where a handler or routine overlaps itself

TOPICS_CAP == 20
MAX_SEED_VOTES == 20
COMMENT_KARMA == 2
COMMENT_POOL == 15
COMMENT_LIMIT == 25
ROOM_CAP == 50
BATTLE_CAP == 50

\* A generated text is a sequence of tokens: the markers as the model may
\* write them, a run of other visible characters, a blank and a line break.
Whitespace == {" ", "\n"}

Responses ==
  { <<"TITLE:", " ", "w", "\n", "CONTENT:", " ", "w">>,
    <<"title:", "w", "\n", "content:", "w">>,
    <<"TITLE:", "\n", "CONTENT:", "w">>,
    <<"TITLE:", "w", "\n", "CONTENT:">>,
    <<"CONTENT:", " ", "w">>,
    <<"TITLE:", " ", "w">>,
    <<"w">> }

\* how a call of anthropic.messages.create settles
LLMResults == {[ok |-> FALSE]} \cup { [ok |-> TRUE, text |-> r] : r \in Responses }

\* the i flag of the two patterns
Upper(tok) ==
  CASE tok = "title:" -> "TITLE:"
    [] tok = "content:" -> "CONTENT:"
    [] OTHER -> tok

WsRun(txt, i, j) == \A k \in (i + 1)..(j - 1) : txt[k] \in Whitespace

\* String.prototype.trim
RECURSIVE trimStart(_)
trimStart(txt) ==
  IF txt # <<>> /\ Head(txt) \in Whitespace THEN trimStart(Tail(txt)) ELSE txt

RECURSIVE trimEnd(_)
trimEnd(txt) ==
  IF txt # <<>> /\ txt[Len(txt)] \in Whitespace THEN trimEnd(SubSeq(txt, 1, Len(txt) - 1)) ELSE txt

trimText(txt) == trimEnd(trimStart(txt))

\* /TITLE:\s*(.+)/i matches at i: the marker, white space, then a character
\* that is not a line break
TitleAt(txt, i) ==
  /\ Upper(txt[i]) = "TITLE:"
  /\ \E j \in (i + 1)..Len(txt) : WsRun(txt, i, j) /\ txt[j] # "\n"

TitleMatch(txt) == \E i \in 1..Len(txt) : TitleAt(txt, i)

\* tm[1].trim(): the group starts after the longest white space that leaves
\* it a character and runs to the end of the line
TitleCapture(txt) ==
  IF ~TitleMatch(txt) THEN <<>>
  ELSE LET i == CHOOSE a \in 1..Len(txt) : TitleAt(txt, a) /\ \A b \in 1..(a - 1) : ~TitleAt(txt, b)
           starts == { j \in (i + 1)..Len(txt) : WsRun(txt, i, j) /\ txt[j] # "\n" }
           j == CHOOSE a \in starts : \A b \in starts : b <= a
           ends == { e \in j..Len(txt) : \A k \in j..e : txt[k] # "\n" }
           e == CHOOSE a \in ends : \A b \in ends : b <= a
       IN trimText(SubSeq(txt, j, e))

\* /CONTENT:\s*([\s\S]+)/i matches at i: the marker and at least one character
ContentAt(txt, i) == Upper(txt[i]) = "CONTENT:" /\ i < Len(txt)

ContentMatch(txt) == \E i \in 1..Len(txt) : ContentAt(txt, i)

\* cm[1].trim()
ContentCapture(txt) ==
  IF ~ContentMatch(txt) THEN <<>>
  ELSE LET i == CHOOSE a \in 1..Len(txt) : ContentAt(txt, a) /\ \A b \in 1..(a - 1) : ~ContentAt(txt, b)
           starts == { j \in (i + 1)..Len(txt) : WsRun(txt, i, j) }
           j == CHOOSE a \in starts : \A b \in starts : b <= a
       IN trimText(SubSeq(txt, j, Len(txt)))

\* the test that looks for the content marker only
ParsedPost_contentOnly(txt) == ContentMatch(txt)

\* if (tm && cm)
ParsedPost(txt) == TitleMatch(txt) /\ ContentMatch(txt)

RemoveAt(seq, i) == SubSeq(seq, 1, i - 1) \o SubSeq(seq, i + 1, Len(seq))

\* the settled call as the request of the step that runs the continuation
Settled(t, result) == [type |-> "llm", routine |-> t.kind, result |-> result, wrote |-> t.wrote]

TopicHives == {"c/technology"}
SeedVotes == {MAX_SEED_VOTES}

\* a timer fires and its routine runs up to its first await
\* the number of suspended invocations under which routine kind may start
InflightCap(kind) == IF kind = "generateKrabPost" THEN MaxInflightPosts ELSE MaxInflight

Suspend(task, routine) ==
  /\ proc = "running"
  /\ Len(tasks) < InflightCap(task.kind)
  /\ tasks' = Append(tasks, task)
  /\ UNCHANGED extVars
  /\ req' = [type |-> "timer", routine |-> routine, escaped |-> FALSE]
  /\ out' = <<>>
  /\ UNCHANGED <<now, sessVars, postVars, userVars, rateVars, tokenDiscussion, regVars, res,
                 agents, userAgents, agentRooms, battles, nextBattleId, proc>>

\* generateKrabPost, up to the await: the agent and the topic are drawn
generateKrabPost(agent, hive) ==
  Suspend([kind |-> "generateKrabPost", agent |-> agent, hive |-> hive, wrote |-> FALSE],
          "generateKrabPost")

\* generateKrabPost, from the await on
generateKrabPost_resume_staleKarma(i, result, seed) ==
  /\ proc = "running"
  /\ i \in 1..Len(tasks)
  /\ tasks[i].kind = "generateKrabPost"
  /\ LET t == tasks[i]
         a == agents[t.agent]
     IN IF result.ok /\ ParsedPost(result.text)
        THEN /\ CreatedPosts < MaxPostId
             /\ LET post == [id |-> nextPostId, hive |-> NULL, claw |-> t.hive, author |-> a.name,
                             wallet |-> a.name, votes |-> seed, voters |-> << >>,
                             comments |-> <<>>, timestamp |-> now, isAgentPost |-> TRUE,
                             title |-> TitleCapture(result.text),
                             content |-> ContentCapture(result.text)]
                    ags == [agents EXCEPT ![t.agent].topics = Take(<<t.hive>> \o @, TOPICS_CAP),
                                          ![t.agent].postCount = @ + 1,
                                          ![t.agent].karma = CoreAgents[t.agent].karma + POST_KARMA]
                IN /\ posts' = Take(<<post>> \o posts, POST_CAP)
                   /\ nextPostId' = nextPostId + 1
                   /\ agents' = ags
                   /\ out' = broadcast(clients, readyState, [type |-> "new_post", post |-> post])
                             \o broadcast(clients, readyState,
                                          [type |-> "activity", kind |-> "posted", actor |-> a.name])
                             \o broadcast(clients, readyState, [type |-> "agents", agents |-> ags])
        ELSE \* the call threw (caught), or a marker is missing
             /\ out' = <<>>
             /\ UNCHANGED <<posts, nextPostId, agents>>
  /\ tasks' = RemoveAt(tasks, i)
  /\ inbox' = Delivered(out')
  /\ UNCHANGED extVars
  /\ req' = Settled(tasks[i], result)
  /\ UNCHANGED <<now, clients, readyState, online, joinedAt, userVars, rateVars, tokenDiscussion,
                 regVars, res, userAgents, agentRooms, battles, nextBattleId, proc>>

generateKrabPost_resume(i, result, seed) ==
  /\ proc = "running"
  /\ i \in 1..Len(tasks)
  /\ tasks[i].kind = "generateKrabPost"
  /\ LET t == tasks[i]
         a == agents[t.agent]
     IN IF result.ok /\ ParsedPost(result.text)
        THEN /\ CreatedPosts < MaxPostId
             /\ LET post == [id |-> nextPostId, hive |-> NULL, claw |-> t.hive, author |-> a.name,
                             wallet |-> a.name, votes |-> seed, voters |-> << >>,
                             comments |-> <<>>, timestamp |-> now, isAgentPost |-> TRUE,
                             title |-> TitleCapture(result.text),
                             content |-> ContentCapture(result.text)]
                    ags == [agents EXCEPT ![t.agent].topics = Take(<<t.hive>> \o @, TOPICS_CAP),
                                          ![t.agent].postCount = @ + 1,
                                          ![t.agent].karma = @ + POST_KARMA]
                IN /\ posts' = Take(<<post>> \o posts, POST_CAP)
                   /\ nextPostId' = nextPostId + 1
                   /\ agents' = ags
                   /\ out' = broadcast(clients, readyState, [type |-> "new_post", post |-> post])
                             \o broadcast(clients, readyState,
                                          [type |-> "activity", kind |-> "posted", actor |-> a.name])
                             \o broadcast(clients, readyState, [type |-> "agents", agents |-> ags])
        ELSE \* the call threw (caught), or a marker is missing
             /\ out' = <<>>
             /\ UNCHANGED <<posts, nextPostId, agents>>
  /\ tasks' = RemoveAt(tasks, i)
  /\ inbox' = Delivered(out')
  /\ UNCHANGED extVars
  /\ req' = Settled(tasks[i], result)
  /\ UNCHANGED <<now, clients, readyState, online, joinedAt, userVars, rateVars, tokenDiscussion,
                 regVars, res, userAgents, agentRooms, battles, nextBattleId, proc>>

\* Object.values(registeredAgents).filter(a => a.active)
getActiveRegisteredAgents == { id \in DOMAIN registeredAgents : registeredAgents[id].active }

\* registeredAgentPost, up to the await
registeredAgentPost(agentId) ==
  /\ agentId \in getActiveRegisteredAgents
  /\ Suspend([kind |-> "registeredAgentPost", agentId |-> agentId, wrote |-> FALSE],
             "registeredAgentPost")

\* registeredAgentPost, from the await on
registeredAgentPost_resume(i, result, diskOk) ==
  /\ proc = "running"
  /\ i \in 1..Len(tasks)
  /\ tasks[i].kind = "registeredAgentPost"
  /\ LET t == tasks[i]
         a == registeredAgents[t.agentId]
     IN IF result.ok /\ ParsedPost(result.text)
        THEN /\ CreatedPosts < MaxPostId
             /\ LET post == [id |-> nextPostId, hive |-> NULL, claw |-> "c/general",
                             author |-> a.name, wallet |-> NULL, votes |-> 1, voters |-> << >>,
                             comments |-> <<>>, timestamp |-> now, isAgentPost |-> TRUE,
                             agentId |-> a.id,
                             title |-> TitleCapture(result.text),
                             content |-> ContentCapture(result.text)]
                IN /\ posts' = <<post>> \o posts
                   /\ nextPostId' = nextPostId + 1
                   /\ registeredAgents' = [registeredAgents EXCEPT
                                             ![t.agentId].postCount = @ + 1,
                                             ![t.agentId].karma = @ + POST_KARMA,
                                             ![t.agentId].lastActive = now]
                   \* saveRegisteredAgents() throws when the write fails; the
                   \* catch of the routine skips the broadcasts
                   /\ out' = IF diskOk
                               THEN broadcast(clients, readyState, [type |-> "new_post", post |-> post])
                                    \o broadcast(clients, readyState,
                                          [type |-> "activity", kind |-> "posted", actor |-> a.name])
                               ELSE <<>>
        ELSE /\ out' = <<>>
             /\ UNCHANGED <<posts, nextPostId, registeredAgents>>
  /\ tasks' = RemoveAt(tasks, i)
  /\ inbox' = Delivered(out')
  /\ UNCHANGED extVars
  /\ req' = Settled(tasks[i], result)
  /\ UNCHANGED <<now, clients, readyState, online, joinedAt, userVars, rateVars, tokenDiscussion,
                 agentApiKeys, registrationRateLimits, idGen, res, agents, userAgents,
                 agentRooms, battles, nextBattleId, proc>>

(* Post generation: the two generators and one session that listens *)
NextGen ==
  \/ Connect("s1", "")
  \/ \E agent \in DOMAIN agents, hive \in TopicHives : generateKrabPost(agent, hive)
  \/ \E i \in 1..MaxInflightPosts, result \in LLMResults, seed \in SeedVotes :
       generateKrabPost_resume(i, result, seed)
  \/ \E agentId \in DOMAIN registeredAgents : registeredAgentPost(agentId)
  \/ \E i \in 1..MaxInflight, result \in LLMResults, diskOk \in BOOLEAN :
       registeredAgentPost_resume(i, result, diskOk)

SpecGen == InitLoaded(0, FALSE, TRUE) /\ [][NextGen]_vars

----------------------------------------------------------------------------
(* agentComment *)

\* texts of the calls whose answer is stored as it comes
PlainResults == {[ok |-> FALSE], [ok |-> TRUE, text |-> <<"w">>]}

\* agentComment, up to the await: the agent and one of the first
\* min(15, posts.length) posts are drawn
agentComment(agent, k) ==
  /\ Len(posts) > 0
  /\ k \in 1..Min(COMMENT_POOL, Len(posts))
  /\ ~(Len(posts[k].comments) > COMMENT_LIMIT)
  /\ posts[k].author # agents[agent].name
  /\ Suspend([kind |-> "agentComment", agent |-> agent, postId |-> posts[k].id, wrote |-> FALSE],
             "agentComment")

\* agentComment, from the await on; the routine holds the post object, which
\* may have left the list in the meantime
agentComment_resume(i, result) ==
  /\ proc = "running"
  /\ i \in 1..Len(tasks)
  /\ tasks[i].kind = "agentComment"
  /\ LET t == tasks[i]
         a == agents[t.agent]
         k == FindPost(posts, t.postId)
     IN IF result.ok
        THEN /\ k # 0 => Len(posts[k].comments) < MaxComments
             /\ LET comment == [author |-> a.name, wallet |-> a.name, text |-> result.text,
                                timestamp |-> now, isAgent |-> TRUE]
                    ps  == IF k = 0 THEN posts
                           ELSE [posts EXCEPT ![k].comments = Append(@, comment)]
                    ags == [agents EXCEPT ![t.agent].commentCount = @ + 1,
                                          ![t.agent].karma = @ + COMMENT_KARMA]
                IN /\ posts' = ps
                   /\ agents' = ags
                   /\ out' = broadcast(clients, readyState, [type |-> "update_post", postId |-> t.postId])
                             \o broadcast(clients, readyState,
                                          [type |-> "activity", kind |-> "commented", actor |-> a.name])
                             \o broadcast(clients, readyState,
                                          [type |-> "state", comments |-> getTotalComments(ps)])
                             \o broadcast(clients, readyState, [type |-> "agents", agents |-> ags])
        ELSE /\ out' = <<>>
             /\ UNCHANGED <<posts, agents>>
  /\ tasks' = RemoveAt(tasks, i)
  /\ inbox' = Delivered(out')
  /\ UNCHANGED extVars
  /\ req' = Settled(tasks[i], result)
  /\ UNCHANGED <<now, clients, readyState, online, joinedAt, nextPostId, userVars, rateVars,
                 tokenDiscussion, regVars, res, userAgents, agentRooms, battles, nextBattleId,
                 proc>>

----------------------------------------------------------------------------
(* agentRoomConversation *)

MaxRoomMessages == 2    \* messages of one room

\* room.isPrivate ? room.members : agents.map(a => a.name)
RoomMembers(roomId) ==
  IF agentRooms[roomId].isPrivate
    THEN { agentRooms[roomId].members[j] : j \in 1..Len(agentRooms[roomId].members) }
    ELSE { agents[n].name : n \in DOMAIN agents }

\* Array.prototype.slice(-n)
Last(seq, n) == SubSeq(seq, Len(seq) - Min(n, Len(seq)) + 1, Len(seq))

\* the end of the routine: trim the room and broadcast it
RoomUpdate(rooms, roomId) ==
  [rooms EXCEPT ![roomId].messages = Last(@, ROOM_CAP)]

\* agentRoomConversation, up to the first await: the room and the first two
\* of the shuffled members are drawn
agentRoomConversation(roomId, p1, p2) ==
  /\ Cardinality(RoomMembers(roomId)) >= 2
  /\ {p1, p2} \subseteq RoomMembers(roomId)
  /\ p1 # p2
  /\ p1 \in DOMAIN agents
  /\ Suspend([kind |-> "agentRoomConversation", room |-> roomId, speaker1 |-> p1,
              speaker2 |-> p2, call |-> 1, wrote |-> FALSE], "agentRoomConversation")

\* agentRoomConversation, from one await to the next or to the end; cap: the
\* number of messages up to which a room is filled
agentRoomConversation_resumeUnder(cap, i, result) ==
  /\ proc = "running"
  /\ i \in 1..Len(tasks)
  /\ tasks[i].kind = "agentRoomConversation"
  /\ LET t == tasks[i]
         speaker == IF t.call = 1 THEN t.speaker1 ELSE t.speaker2
         pushed == [agentRooms EXCEPT ![t.room].messages =
                      Append(@, [agent |-> speaker, content |-> result.text, timestamp |-> now])]
     IN IF ~result.ok
        THEN \* caught at the end of the routine: no trim, no broadcast
             /\ tasks' = RemoveAt(tasks, i)
             /\ out' = <<>>
             /\ UNCHANGED agentRooms
        ELSE /\ Len(agentRooms[t.room].messages) < cap
             /\ IF t.call = 1 /\ t.speaker2 \in DOMAIN agents
                  THEN \* msg1 is in the room; the second call is made
                       /\ agentRooms' = pushed
                       /\ tasks' = [tasks EXCEPT ![i].call = 2, ![i].wrote = TRUE]
                       /\ out' = <<>>
                  ELSE /\ agentRooms' = RoomUpdate(pushed, t.room)
                       /\ tasks' = RemoveAt(tasks, i)
                       /\ out' = broadcast(clients, readyState,
                                           [type |-> "room_update", roomId |-> t.room,
                                            messages |-> Len(agentRooms'[t.room].messages)])
  /\ inbox' = Delivered(out')
  /\ UNCHANGED extVars
  /\ req' = Settled(tasks[i], result)
  /\ UNCHANGED <<now, clients, readyState, online, joinedAt, postVars, userVars, rateVars,
                 tokenDiscussion, regVars, res, agents, userAgents, battles, nextBattleId, proc>>

agentRoomConversation_resume(i, result) ==
  agentRoomConversation_resumeUnder(MaxRoomMessages, i, result)

----------------------------------------------------------------------------
(* Battles: msg.type === 'create_battle' and createBattle *)

\* `${agent.name} contemplates the topic...`
FallbackResponse(agent) == <<agent, "contemplates", "the", "topic...">>

\* generateBattleResponse: a call that throws is answered by the fallback text
generateBattleResponse(agent, result) ==
  IF result.ok THEN result.text ELSE FallbackResponse(agent)

FindBattle(bs, id) ==
  IF \E k \in 1..Len(bs) : bs[k].id = id
  THEN CHOOSE k \in 1..Len(bs) : bs[k].id = id
  ELSE 0

\* the handler up to the first await inside createBattle
\* cap: the number of suspended invocations under which the request still starts
CreateBattleUnder(cap, s, agent1, agent2) ==
  /\ CanReceive(s)
  /\ LET uw == WalletOf(s)
         c1 == getUser(Ctx(clients, readyState), uw)
         existingActive == \E k \in 1..Len(battles) : battles[k].status = "active"
         battle == [id |-> nextBattleId, agent1 |-> agent1, agent2 |-> agent2,
                    responses |-> (agent1 :> <<>>) @@ (agent2 :> <<>>),
                    votes |-> (agent1 :> 0) @@ (agent2 :> 0), voters |-> << >>,
                    status |-> "pending", winner |-> NULL, createdAt |-> now,
                    endsAt |-> now + BATTLE_MS]
     IN IF uw = ""
        THEN /\ out' = <<[to |-> s, via |-> "send", msg |-> [type |-> "error", message |-> "Connect wallet"]]>>
             /\ UNCHANGED <<users, achievements, battles, nextBattleId, tasks>>
        ELSE IF existingActive
        THEN /\ out' = c1.out \o <<[to |-> s, via |-> "send", msg |->
                          [type |-> "error", message |-> "A battle is already in progress! Vote on it first."]]>>
             /\ users' = c1.users
             /\ achievements' = c1.achievements
             /\ UNCHANGED <<battles, nextBattleId, tasks>>
        ELSE IF agent1 \notin DOMAIN agents \/ agent2 \notin DOMAIN agents \/ agent1 = agent2
        THEN \* createBattle returns null
             /\ out' = c1.out \o <<[to |-> s, via |-> "send", msg |->
                          [type |-> "error", message |-> "Failed to create battle"]]>>
             /\ users' = c1.users
             /\ achievements' = c1.achievements
             /\ UNCHANGED <<battles, nextBattleId, tasks>>
        ELSE /\ Len(tasks) < cap
             /\ battles' = Take(<<battle>> \o battles, BATTLE_CAP)
             /\ nextBattleId' = nextBattleId + 1
             /\ tasks' = Append(tasks, [kind |-> "createBattle", ws |-> s, wallet |-> uw,
                                        battleId |-> battle.id, call |-> 1, wrote |-> TRUE])
             /\ users' = c1.users
             /\ achievements' = c1.achievements
             /\ out' = c1.out
  /\ inbox' = Delivered(out')
  /\ UNCHANGED extVars
  /\ req' = [type |-> "create_battle", ws |-> s, wallet |-> WalletOf(s), agent1 |-> agent1,
             agent2 |-> agent2]
  /\ UNCHANGED <<now, clients, readyState, online, joinedAt, postVars, rateVars, tokenDiscussion,
                 regVars, res, agents, userAgents, agentRooms, proc>>

\* createBattle from one await to the next, and the rest of the handler after
\* the second
CreateBattle(s, agent1, agent2) == CreateBattleUnder(MaxInflight, s, agent1, agent2)

createBattle_resume(i, result) ==
  /\ proc = "running"
  /\ i \in 1..Len(tasks)
  /\ tasks[i].kind = "createBattle"
  /\ LET t == tasks[i]
         k == FindBattle(battles, t.battleId)
         b == battles[k]
         agent == IF t.call = 1 THEN b.agent1 ELSE b.agent2
         answered == [b EXCEPT !.responses[agent] = generateBattleResponse(agent, result)]
     IN /\ k # 0
        /\ IF t.call = 1
             THEN /\ battles' = [battles EXCEPT ![k] = answered]
                  /\ tasks' = [tasks EXCEPT ![i].call = 2]
                  /\ out' = <<>>
             ELSE /\ battles' = [battles EXCEPT ![k] = [answered EXCEPT !.status = "active"]]
                  /\ tasks' = RemoveAt(tasks, i)
                  /\ out' = broadcast(clients, readyState, [type |-> "new_battle", id |-> b.id])
                            \o (IF t.wallet = "SNAI" THEN <<>>
                                ELSE notify(clients, readyState, t.wallet,
                                            [type |-> "notification", kind |-> "battle", id |-> b.id]))
  /\ inbox' = Delivered(out')
  /\ UNCHANGED extVars
  /\ req' = Settled(tasks[i], result)
  /\ UNCHANGED <<now, clients, readyState, online, joinedAt, postVars, userVars, rateVars,
                 tokenDiscussion, regVars, res, agents, userAgents, agentRooms, nextBattleId,
                 proc>>

----------------------------------------------------------------------------
(* registeredAgentVote: a synchronous timer callback without a try *)

VOTE_POOL == 30

\* `agent_${agent.id}`
voteKey(agentId) == <<"agent_1", "agent_2", "agent_3">>[agentId]

\* the vote is written whether or not the agent holds one
registeredAgentVote_revote(agentId, k, vote, diskOk) ==
  /\ proc = "running"
  /\ agentId \in getActiveRegisteredAgents
  /\ Len(posts) > 0
  /\ k \in 1..Min(VOTE_POOL, Len(posts))
  /\ IF TRUE
       THEN /\ posts' = [posts EXCEPT ![k].voters = Put(@, voteKey(agentId), vote),
                                      ![k].votes = @ + vote]
            /\ registeredAgents' = [registeredAgents EXCEPT ![agentId].lastActive = now]
            \* saveRegisteredAgents() throws when the write fails: the exception
            \* leaves the timer callback and ends the process
            /\ proc' = IF diskOk THEN proc ELSE "crashed"
            /\ out' = IF diskOk
                        THEN broadcast(clients, readyState,
                                       [type |-> "update_post", postId |-> posts[k].id])
                        ELSE <<>>
       ELSE /\ out' = <<>>
            /\ UNCHANGED <<posts, registeredAgents, proc>>
  /\ inbox' = Delivered(out')
  /\ UNCHANGED extVars
  /\ req' = [type |-> "timer", routine |-> "registeredAgentVote", escaped |-> (proc' # proc)]
  /\ UNCHANGED <<now, clients, readyState, online, joinedAt, nextPostId, userVars, rateVars,
                 tokenDiscussion, agentApiKeys, registrationRateLimits, idGen, res, agents,
                 userAgents, agentRooms, battles, nextBattleId, tasks>>

\* registeredAgentVote(): one random active agent, one of the 30 newest posts
registeredAgentVote(agentId, k, vote, diskOk) ==
  /\ proc = "running"
  /\ agentId \in getActiveRegisteredAgents
  /\ Len(posts) > 0
  /\ k \in 1..Min(VOTE_POOL, Len(posts))
  /\ IF Get(posts[k].voters, voteKey(agentId), 0) = 0
       THEN /\ posts' = [posts EXCEPT ![k].voters = Put(@, voteKey(agentId), vote),
                                      ![k].votes = @ + vote]
            /\ registeredAgents' = [registeredAgents EXCEPT ![agentId].lastActive = now]
            \* saveRegisteredAgents() throws when the write fails: the exception
            \* leaves the timer callback and ends the process
            /\ proc' = IF diskOk THEN proc ELSE "crashed"
            /\ out' = IF diskOk
                        THEN broadcast(clients, readyState,
                                       [type |-> "update_post", postId |-> posts[k].id])
                        ELSE <<>>
       ELSE /\ out' = <<>>
            /\ UNCHANGED <<posts, registeredAgents, proc>>
  /\ inbox' = Delivered(out')
  /\ UNCHANGED extVars
  /\ req' = [type |-> "timer", routine |-> "registeredAgentVote", escaped |-> (proc' # proc)]
  /\ UNCHANGED <<now, clients, readyState, online, joinedAt, nextPostId, userVars, rateVars,
                 tokenDiscussion, agentApiKeys, registrationRateLimits, idGen, res, agents,
                 userAgents, agentRooms, battles, nextBattleId, tasks>>

----------------------------------------------------------------------------
(* maybeAgentDeploysAgent, agentDeploysAgent and generateAgentIntroPost *)

MaxDeployed == 1        \* agents deployed by agents

AUTO_DEPLOY_MAX == 20
FIRST_USER_AGENT_ID == 100
DEPLOYED_KARMA == 5

\* two of the ten concepts of agentDeploysAgent
Concepts == {"DataMiner", "TrendSpotter"}

\* what follows a rejected promise that nothing handles: the process ends
\* (the default of Node.js 15 and later) or goes on after a warning
UnhandledRejection == {"crashed", "running"}

\* the 10% branch of maybeAgentDeploysAgent; the body has no try
maybeAgentDeploysAgent(deployer, concept, outcome) ==
  /\ proc = "running"
  /\ deployer \in DOMAIN agents
  /\ agents[deployer].name # "SNAI"
  /\ IF ~userAgents.isArray
       THEN \* userAgents.filter is not a function
            /\ proc' = outcome
            /\ out' = <<>>
            /\ UNCHANGED extVars
            /\ req' = [type |-> "timer", routine |-> "maybeAgentDeploysAgent", escaped |-> TRUE]
            /\ UNCHANGED <<posts, nextPostId, userAgents, tasks>>
       ELSE /\ outcome = "running"
            /\ Len(userAgents.list) < AUTO_DEPLOY_MAX
            /\ Len(userAgents.list) < MaxDeployed
            /\ concept \notin { userAgents.list[j].name : j \in 1..Len(userAgents.list) }
            /\ CreatedPosts < MaxPostId
            /\ Len(tasks) < MaxInflight
            /\ LET newAgent == [id |-> FIRST_USER_AGENT_ID + Len(userAgents.list),
                                name |-> concept, karma |-> DEPLOYED_KARMA, postCount |-> 0,
                                commentCount |-> 0, deployedBy |-> agents[deployer].name]
                   announcement == [id |-> nextPostId, hive |-> "c/agents", claw |-> NULL,
                                    author |-> agents[deployer].name, wallet |-> NULL,
                                    votes |-> 1, voters |-> << >>, comments |-> <<>>,
                                    timestamp |-> now, isAgentPost |-> TRUE,
                                    agentId |-> agents[deployer].id]
               IN /\ userAgents' = [userAgents EXCEPT !.list = Append(@, newAgent)]
                  \* setTimeout(() => generateAgentIntroPost(newAgent), 3000)
                  /\ tasks' = Append(tasks, [kind |-> "generateAgentIntroPost",
                                             agentId |-> newAgent.id, wrote |-> FALSE])
                  /\ posts' = <<announcement>> \o posts
                  /\ nextPostId' = nextPostId + 1
                  /\ out' = broadcast(clients, readyState,
                                      [type |-> "activity", kind |-> "agent_deployed_agent",
                                       actor |-> agents[deployer].name])
                            \o broadcast(clients, readyState, [type |-> "new_agent", id |-> newAgent.id])
                            \o broadcast(clients, readyState, [type |-> "new_post", post |-> announcement])
            /\ UNCHANGED extVars
            /\ req' = [type |-> "timer", routine |-> "maybeAgentDeploysAgent", escaped |-> FALSE]
            /\ UNCHANGED proc
  /\ inbox' = Delivered(out')
  /\ UNCHANGED <<now, clients, readyState, online, joinedAt, userVars, rateVars, tokenDiscussion,
                 regVars, res, agents, agentRooms, battles, nextBattleId>>

\* generateAgentIntroPost: the timer of agentDeploysAgent fires, the call is
\* made and settles
generateAgentIntroPost_resume(i, result) ==
  /\ proc = "running"
  /\ i \in 1..Len(tasks)
  /\ tasks[i].kind = "generateAgentIntroPost"
  /\ LET t == tasks[i]
         j == CHOOSE a \in 1..Len(userAgents.list) : userAgents.list[a].id = t.agentId
         agent == userAgents.list[j]
     IN IF result.ok
        THEN /\ CreatedPosts < MaxPostId
             /\ LET post == [id |-> nextPostId, hive |-> "c/agents", claw |-> NULL,
                             author |-> agent.name, wallet |-> NULL, votes |-> 1,
                             voters |-> << >>, comments |-> <<>>, timestamp |-> now,
                             isAgentPost |-> TRUE, agentId |-> agent.id,
                             content |-> result.text]
                IN /\ posts' = <<post>> \o posts
                   /\ nextPostId' = nextPostId + 1
                   /\ userAgents' = [userAgents EXCEPT !.list[j].postCount = @ + 1]
                   /\ out' = broadcast(clients, readyState, [type |-> "new_post", post |-> post])
        ELSE /\ out' = <<>>
             /\ UNCHANGED <<posts, nextPostId, userAgents>>
  /\ tasks' = RemoveAt(tasks, i)
  /\ inbox' = Delivered(out')
  /\ UNCHANGED extVars
  /\ req' = Settled(tasks[i], result)
  /\ UNCHANGED <<now, clients, readyState, online, joinedAt, userVars, rateVars, tokenDiscussion,
                 regVars, res, agents, agentRooms, battles, nextBattleId, proc>>

----------------------------------------------------------------------------
(* POST /api/v1/agents/post *)

RestPost(api_key, diskOk) ==
  /\ proc = "running"
  /\ IF api_key \notin DOMAIN agentApiKeys
       THEN /\ res' = [status |-> 401, error |-> "Invalid API key"]
            /\ out' = <<>>
            /\ UNCHANGED <<posts, nextPostId, registeredAgents, agentApiKeys>>
       ELSE LET agentId == agentApiKeys[api_key].agentId
            IN IF agentId \notin DOMAIN registeredAgents \/ ~registeredAgents[agentId].active
               THEN /\ res' = [status |-> 404, error |-> "Agent not found or not active"]
                    /\ out' = <<>>
                    /\ UNCHANGED <<posts, nextPostId, registeredAgents, agentApiKeys>>
               ELSE LET a == registeredAgents[agentId]
                        post == [id |-> nextPostId, hive |-> NULL, claw |-> "c/general",
                                 author |-> a.name, wallet |-> NULL, votes |-> 1,
                                 voters |-> << >>, comments |-> <<>>, timestamp |-> now,
                                 isAgentPost |-> TRUE, agentId |-> a.id]
                    IN /\ CreatedPosts < MaxPostId
                       /\ posts' = <<post>> \o posts
                       /\ nextPostId' = nextPostId + 1
                       /\ registeredAgents' = [registeredAgents EXCEPT
                                                 ![agentId].postCount = @ + 1,
                                                 ![agentId].karma = @ + POST_KARMA,
                                                 ![agentId].lastActive = now]
                       /\ agentApiKeys' = [agentApiKeys EXCEPT ![api_key].lastUsed = now]
                       \* saveRegisteredAgents() throws when the write fails
                       /\ IF diskOk
                            THEN /\ res' = [status |-> 200, postId |-> post.id]
                                 /\ out' = broadcast(clients, readyState, [type |-> "new_post", post |-> post])
                                           \o broadcast(clients, readyState,
                                                 [type |-> "activity", kind |-> "posted", actor |-> a.name])
                            ELSE /\ res' = [status |-> 500, error |-> "Internal Server Error"]
                                 /\ out' = <<>>
  /\ inbox' = Delivered(out')
  /\ UNCHANGED extVars
  /\ req' = [type |-> "rest_post", api_key |-> api_key]
  /\ UNCHANGED <<now, clients, readyState, online, joinedAt, userVars, rateVars, tokenDiscussion,
                 registrationRateLimits, idGen, agents, userAgents, agentRooms, battles,
                 nextBattleId, tasks, proc>>

----------------------------------------------------------------------------
(* Post generation: a response without a marker *)

HasMarker(txt, marker) == \E i \in 1..Len(txt) : Upper(txt[i]) = marker

Generators == {"generateKrabPost", "registeredAgentPost"}

\* C7: when the call of generateKrabPost or registeredAgentPost answers with
\* a text that has no TITLE: marker, or no CONTENT: marker, the continuation
\* creates no post, leaves nextPostId and the counters of the core and the
\* registered agents (postCount, karma, topics, lastActive) as they were and
\* writes nothing to any session.
C7_NoMarkerNoPost ==
  [][ (/\ req'.type = "llm"
       /\ req'.routine \in Generators
       /\ req'.result.ok
       /\ ~HasMarker(req'.result.text, "TITLE:") \/ ~HasMarker(req'.result.text, "CONTENT:"))
      => /\ UNCHANGED <<posts, nextPostId, agents, registeredAgents>>
         /\ out' = <<>>
    ]_vars

\* generateKrabPost got a text with the content marker only while s1 was
\* listening and a post had been generated before: the list still holds that
\* one post
C7_Witness ==
  /\ req.type = "llm"
  /\ req.routine = "generateKrabPost"
  /\ req.result.ok
  /\ req.result.text = <<"CONTENT:", " ", "w">>
  /\ OpenSessions = {"s1"}
  /\ Len(posts) = 1
  /\ nextPostId = 2
  /\ out = <<>>

----------------------------------------------------------------------------
(* The routines that make calls, vote and deploy *)

InitRoutines == \E legacy \in BOOLEAN : InitLoaded(1, legacy, TRUE)

\* the routines that make one call or more for each invocation
NextCalls ==
  \/ Connect("s1", "ABC123")
  \/ \E agent \in DOMAIN agents, k \in 1..COMMENT_POOL : agentComment(agent, k)
  \/ \E i \in 1..MaxInflight, result \in PlainResults : agentComment_resume(i, result)
  \/ \E roomId \in DOMAIN agentRooms :
       \E p2 \in {"Nexus-7", "SwarmNode"} : agentRoomConversation(roomId, "SNAI", p2)
  \/ \E i \in 1..MaxInflight, result \in PlainResults : agentRoomConversation_resume(i, result)
  \/ \E agent2 \in DOMAIN agents : CreateBattle("s1", "SNAI", agent2)
  \/ \E i \in 1..MaxInflight, result \in PlainResults : createBattle_resume(i, result)

SpecCalls == InitRoutines /\ [][NextCalls]_vars

\* the timer callbacks whose body has no try, and the introduction that has one
NextTimers ==
  \/ Connect("s1", "ABC123")
  \/ \E agentId \in DOMAIN registeredAgents, k \in 1..VOTE_POOL, vote \in Directions,
        diskOk \in BOOLEAN : registeredAgentVote(agentId, k, vote, diskOk)
  \/ \E deployer \in DOMAIN agents, concept \in Concepts, outcome \in UnhandledRejection :
       maybeAgentDeploysAgent(deployer, concept, outcome)
  \/ \E i \in 1..MaxInflight, result \in PlainResults : generateAgentIntroPost_resume(i, result)

SpecTimers == InitRoutines /\ [][NextTimers]_vars

\* C8: when a text-generation call of a routine throws, the invocation has
\* written nothing before the call, the step that handles the throw leaves
\* posts (and their comments), the post counter, the room messages, the
\* battles and the counters of the agents as they are, and the process keeps
\* running its timers.
C8_ThrowDropsAttempt ==
  [][ (req'.type = "llm" /\ ~req'.result.ok)
      => /\ ~req'.wrote
         /\ UNCHANGED <<posts, nextPostId, agentRooms, battles, nextBattleId, agents,
                        registeredAgents>>
         /\ proc' = "running"
    ]_vars

\* C9: no error leaves the body of a scheduled routine: a timer callback
\* never ends with an exception or a rejected promise that nothing handles,
\* and after every timer callback and every continuation the process is
\* running, so that the timers fire again.
C9_ErrorsNeverEscape ==
  [][ req'.type \in {"timer", "llm"}
      => /\ proc' = "running"
         /\ req'.type = "timer" => ~req'.escaped
    ]_vars

----------------------------------------------------------------------------
(* The cap of the post list *)

\* a call that throws and one that answers with both markers
CapResults ==
  {[ok |-> FALSE],
   [ok |-> TRUE, text |-> <<"TITLE:", " ", "w", "\n", "CONTENT:", " ", "w">>]}

NextCap ==
  \/ Connect("s1", "ABC123")
  \/ NewPost("s1", NULL)
  \/ \E hive \in TopicHives : generateKrabPost("Nexus-7", hive)
  \/ \E i \in 1..MaxInflightPosts, result \in CapResults, seed \in SeedVotes :
       generateKrabPost_resume(i, result, seed)
  \/ \E agentId \in DOMAIN registeredAgents : registeredAgentPost(agentId)
  \/ \E i \in 1..MaxInflight, result \in CapResults :
       registeredAgentPost_resume(i, result, TRUE)
  \/ \E api_key \in 1..MaxAgents, diskOk \in BOOLEAN : RestPost(api_key, diskOk)
  \/ \E deployer \in DOMAIN agents, outcome \in UnhandledRejection :
       maybeAgentDeploysAgent(deployer, "DataMiner", outcome)
  \/ \E i \in 1..MaxInflight, result \in PlainResults : generateAgentIntroPost_resume(i, result)

SpecCap == InitLoaded(POST_CAP - 1, TRUE, TRUE) /\ [][NextCap]_vars

\* C10: the post list never holds more than 200 posts, whichever operation
\* added the last one.
C10_AtMost200Posts == Len(posts) <= POST_CAP

----------------------------------------------------------------------------
(* Persistence: what the save functions write and a fresh process reads *)

\* the counter starts again from its default
OrDefault_always(n, d) == d

\* n || d on a number
OrDefault(n, d) == IF n = 0 THEN d ELSE n

\* the files after saveState(), saveDatabase(), saveRegisteredAgents(),
\* saveApiKeys() and saveRateLimits(); no function writes the rooms
Saved ==
  [posts |-> posts, nextPostId |-> nextPostId, online |-> online, users |-> users,
   agents |-> agents, tokenDiscussion |-> tokenDiscussion, battles |-> battles,
   nextBattleId |-> nextBattleId, achievements |-> achievements,
   \* JSON.stringify keeps the elements of an array, not its named properties
   userAgents |-> [userAgents EXCEPT !.props = <<>>],
   proposals |-> proposals, nextProposalId |-> nextProposalId,
   registeredAgents |-> registeredAgents, agentApiKeys |-> agentApiKeys,
   registrationRateLimits |-> registrationRateLimits]

\* SIGTERM: the state is saved and the process exits; a fresh process runs
\* its declarations, loadDatabase(), loadExternalAgentData() and loadState()
Restart ==
  /\ proc = "running"
  /\ LET disk == Saved
     IN /\ posts' = disk.posts
        /\ nextPostId' = OrDefault(disk.nextPostId, 1)
        /\ online' = disk.online
        /\ users' = disk.users
        /\ agents' = disk.agents
        /\ tokenDiscussion' = disk.tokenDiscussion
        /\ battles' = disk.battles
        /\ nextBattleId' = OrDefault(disk.nextBattleId, 1)
        /\ userAgents' = disk.userAgents
        /\ achievements' = disk.achievements
        /\ registeredAgents' = disk.registeredAgents
        /\ agentApiKeys' = disk.agentApiKeys
        /\ registrationRateLimits' = disk.registrationRateLimits
        /\ proposals' = disk.proposals
        /\ nextProposalId' = OrDefault(disk.nextProposalId, 1)
  /\ agentRooms' = InitialRooms
  /\ clients' = <<>>
  /\ readyState' = [s \in Sessions |-> "CLOSED"]
  /\ inbox' = [s \in Sessions |-> {}]
  /\ joinedAt' = [s \in Sessions |-> 0]
  /\ rateLimitMap' = << >>
  /\ accepted' = [w \in Wallets |-> <<>>]
  /\ tasks' = <<>>
  /\ res' = NULL
  /\ agentCreationLimits' = [byIP |-> << >>, byWallet |-> << >>]
  /\ agentTokens' = InitialTokens
  /\ nextTokenId' = Len(InitialTokens) + 1
  /\ UNCHANGED botVars
  /\ req' = [type |-> "restart"]
  /\ out' = <<>>
  /\ UNCHANGED <<now, idGen, proc>>

NextRestart ==
  \/ Connect("s1", "ABC123")
  \/ NewPost("s1", NULL)
  \/ \E roomId \in DOMAIN agentRooms :
       \E p2 \in {"Nexus-7", "SwarmNode"} : agentRoomConversation(roomId, "SNAI", p2)
  \/ \E i \in 1..MaxInflight, result \in PlainResults : agentRoomConversation_resume(i, result)
  \/ Restart

SpecRestart == InitRoutines /\ [][NextRestart]_vars

Ids(seq) == { seq[i].id : i \in 1..Len(seq) }

\* C11: saving the state and loading it into a fresh process gives every
\* collection the ids and the counts it had: posts and the post counter,
\* users, core agents, user agents, registered agents, battles and their
\* counter, and the messages of every room.
C11_SaveLoadRoundTrip ==
  [][ req'.type = "restart"
      => /\ Len(posts') = Len(posts) /\ Ids(posts') = Ids(posts)
         /\ nextPostId' = nextPostId
         /\ DOMAIN users' = DOMAIN users
         /\ agents' = agents
         /\ userAgents' = userAgents
         /\ DOMAIN registeredAgents' = DOMAIN registeredAgents
         /\ Len(battles') = Len(battles) /\ Ids(battles') = Ids(battles)
         /\ nextBattleId' = nextBattleId
         /\ DOMAIN agentRooms' = DOMAIN agentRooms
         /\ \A r \in DOMAIN agentRooms :
              Len(agentRooms'[r].messages) = Len(agentRooms[r].messages)
    ]_vars

----------------------------------------------------------------------------
(* Trending: calculateHotScore, getTrendingPosts, getTrendingSubhives *)

MaxHotNow == 7200000    \* the clock of the trending specification stops here

HOUR_MS == 3600000
GRAVITY_NUM == 9        \* gravity = 1.8 = 9 / 5
GRAVITY_DEN == 5
AGE_OFFSET == 2
COMMENT_WEIGHT == 2
TRENDING_POSTS == 10
TRENDING_SUBHIVES == 5

RECURSIVE Pow(_, _)
Pow(x, n) == IF n = 0 THEN 1 ELSE x * Pow(x, n - 1)

\* calculateHotScore at time t: the record [num, den] stands for the number
\* num / den^1.8.  The clock of the trending specification advances by whole
\* hours, so the quotient by HOUR_MS is exact; a timestamp is a Date.now()
\* and never falsy.
calculateHotScore(post, t) ==
  [num |-> post.votes + Len(post.comments) * COMMENT_WEIGHT,
   den |-> (t - post.timestamp) \div HOUR_MS + AGE_OFFSET]

\* a < b for two scores: x |-> x^5 is increasing, and (n / d^(9/5))^5 = n^5 / d^9
ScoreLess(a, b) ==
  Pow(a.num, GRAVITY_DEN) * Pow(b.den, GRAVITY_NUM)
    < Pow(b.num, GRAVITY_DEN) * Pow(a.den, GRAVITY_NUM)

\* Array.prototype.sort((a, b) => b.hotScore - a.hotScore), which is stable
RECURSIVE SortByHotScore(_)
SortByHotScore(seq) ==
  IF seq = <<>> THEN <<>>
  ELSE LET front == SortByHotScore(SubSeq(seq, 1, Len(seq) - 1))
           x == seq[Len(seq)]
           keep == { k \in 0..Len(front) :
                       \A j \in 1..k : ~ScoreLess(front[j].hotScore, x.hotScore) }
           k == CHOOSE a \in keep : \A b \in keep : b <= a
       IN SubSeq(front, 1, k) \o <<x>> \o SubSeq(front, k + 1, Len(front))

getTrendingPosts(ps, t, limit) ==
  Take(SortByHotScore([k \in 1..Len(ps) |->
                         [id |-> ps[k].id, hotScore |-> calculateHotScore(ps[k], t)]]),
       limit)

\* the key activity[p.hive] is written under; a post without the property
\* is counted under the key 'undefined'
HiveKey(post) == IF post.hive = NULL THEN "undefined" ELSE post.hive

Within24h(ps, t) == SelectSeq(ps, LAMBDA p : p.timestamp > t - DAY_MS)

\* the keys of activity in the order of their insertion
RECURSIVE KeysInOrder(_)
KeysInOrder(ps) ==
  IF ps = <<>> THEN <<>>
  ELSE LET front == KeysInOrder(SubSeq(ps, 1, Len(ps) - 1))
           key == HiveKey(ps[Len(ps)])
       IN IF \E j \in 1..Len(front) : front[j] = key THEN front ELSE Append(front, key)

RECURSIVE Activity(_, _)
Activity(ps, key) ==
  IF ps = <<>> THEN 0
  ELSE Activity(Tail(ps), key)
       + (IF HiveKey(Head(ps)) = key THEN 1 + Len(Head(ps).comments) ELSE 0)

\* Array.prototype.sort((a, b) => b[1] - a[1])
RECURSIVE SortByActivity(_)
SortByActivity(seq) ==
  IF seq = <<>> THEN <<>>
  ELSE LET front == SortByActivity(SubSeq(seq, 1, Len(seq) - 1))
           x == seq[Len(seq)]
           keep == { k \in 0..Len(front) : \A j \in 1..k : front[j].activity >= x.activity }
           k == CHOOSE a \in keep : \A b \in keep : b <= a
       IN SubSeq(front, 1, k) \o <<x>> \o SubSeq(front, k + 1, Len(front))

getTrendingSubhives(ps, t) ==
  LET recent == Within24h(ps, t)
      keys == KeysInOrder(recent)
  IN Take(SortByActivity([k \in 1..Len(keys) |->
                            [name |-> keys[k], activity |-> Activity(recent, keys[k])]]),
          TRENDING_SUBHIVES)

\* msg.type === 'get_trending'
GetTrending(s) ==
  /\ CanReceive(s)
  /\ LET uw == WalletOf(s)
         c1 == getUser(Ctx(clients, readyState), uw)
     IN /\ users' = c1.users
        /\ achievements' = c1.achievements
        /\ out' = c1.out \o <<[to |-> s, via |-> "send", msg |->
                     [type |-> "trending",
                      posts |-> getTrendingPosts(posts, now, TRENDING_POSTS),
                      subhives |-> getTrendingSubhives(posts, now)]]>>
  /\ inbox' = Delivered(out')
  /\ UNCHANGED extVars
  /\ req' = [type |-> "get_trending", ws |-> s, wallet |-> WalletOf(s)]
  /\ UNCHANGED <<now, clients, readyState, online, joinedAt, postVars, rateVars,
                 tokenDiscussion, regVars, res, schedVars>>

NextHot ==
  \/ \E w \in {"ABC123", "SNAI"} : Connect(IF w = "SNAI" THEN "s2" ELSE "s1", w)
  \/ \E s \in Sessions, id \in Targets(1), d \in Directions : Vote(s, id, d)
  \/ Tick(HOUR_MS, MaxHotNow)
  \/ \E s \in Sessions : GetTrending(s)

SpecHot == InitLoaded(1, TRUE, FALSE) /\ [][NextHot]_vars

\* C12: while the votes and the comments of a post stay as they are, its hot
\* score is strictly smaller after the clock has advanced than it was before,
\* whatever the vote tally, zero and negative tallies included.
C12_ScoreDecaysWithAge ==
  [][ (now' > now /\ posts' = posts)
      => \A k \in 1..Len(posts) :
           ScoreLess(calculateHotScore(posts[k], now'), calculateHotScore(posts[k], now))
    ]_vars

NextTrend ==
  \/ Connect("s1", "ABC123")
  \/ \E hive \in HiveInputs : NewPost("s1", hive)
  \/ \E hive \in TopicHives : generateKrabPost("Nexus-7", hive)
  \/ \E i \in 1..MaxInflightPosts, result \in CapResults, seed \in SeedVotes :
       generateKrabPost_resume(i, result, seed)
  \/ \E diskOk \in BOOLEAN : RestPost(1, diskOk)
  \/ GetTrending("s1")

SpecTrend == InitLoaded(0, TRUE, TRUE) /\ [][NextTrend]_vars

\* the community label a post was created with: hive on the posts of the
\* WebSocket handler, claw on the posts of the generators and of the REST API
FiledUnder(post) == IF post.hive # NULL THEN post.hive ELSE post.claw

RECURSIVE FiledActivity(_, _)
FiledActivity(ps, label) ==
  IF ps = <<>> THEN 0
  ELSE FiledActivity(Tail(ps), label)
       + (IF FiledUnder(Head(ps)) = label THEN 1 + Len(Head(ps).comments) ELSE 0)

TrendingReplies(writes) ==
  { writes[i].msg : i \in { j \in 1..Len(writes) : writes[j].msg.type = "trending" } }

\* C13: the subhives of a trending reply are at most 5, in non-increasing
\* order of activity, and every post of the last 24 hours, whichever path
\* created it, is counted with 1 plus its comments in the entry of the label
\* it was filed under (the labels are fewer than 5 here).
C13_TrendingCountsEveryPost ==
  [][ req'.type = "get_trending"
      => \A m \in TrendingReplies(out') :
           /\ Len(m.subhives) <= TRENDING_SUBHIVES
           /\ \A j \in 1..(Len(m.subhives) - 1) :
                m.subhives[j].activity >= m.subhives[j + 1].activity
           /\ \A k \in 1..Len(posts) :
                posts[k].timestamp > now - DAY_MS
                => \E j \in 1..Len(m.subhives) :
                     /\ m.subhives[j].name = FiledUnder(posts[k])
                     /\ m.subhives[j].activity
                          = FiledActivity(Within24h(posts, now), FiledUnder(posts[k]))
    ]_vars

----------------------------------------------------------------------------
(* Requests that validation rejects *)

NextReject ==
  \/ \E w \in {"", "ABC123"} : Connect("s1", w)
  \/ NewPost("s1", NULL)
  \/ \E id \in Targets(1) : Comment("s1", id)
  \/ TokenComment("s1")
  \/ \E name \in {"Bob", "B"} : RegisterV1("ip2", name, "a helpful agent", "@Bob_X", TRUE)

SpecReject == InitWith(0, TRUE) /\ [][NextReject]_vars

\* the request r was answered with an error payload: a 400 or a 429 of the
\* registration API, or an error or rate_limited message to the sender
Rejected(r, response, writes) ==
  \/ r.type = "register" /\ response.status \in {400, 429}
  \/ /\ r.type \in LimitedTypes
     /\ \E i \in 1..Len(writes) :
          /\ writes[i].to = r.ws
          /\ writes[i].via = "send"
          /\ writes[i].msg.type \in {"error", "rate_limited"}

\* C14: a request that validation rejects changes nothing: posts and the
\* post counter, users and achievements, core and user agents, the registry,
\* the API keys and the rate-limit records of wallets and addresses are the
\* same after it as before.
C14_RejectedNoMutation ==
  [][ Rejected(req', res', out')
      => UNCHANGED <<posts, nextPostId, users, achievements, agents, userAgents,
                     registeredAgents, agentApiKeys, registrationRateLimits, rateLimitMap,
                     tokenDiscussion>>
    ]_vars

----------------------------------------------------------------------------
(* Operations that save the registry *)

NextDisk ==
  \/ Connect("s1", "ABC123")
  \/ \E api_key \in 1..MaxAgents, diskOk \in BOOLEAN : RestPost(api_key, diskOk)
  \/ \E agentId \in DOMAIN registeredAgents : registeredAgentPost(agentId)
  \/ \E i \in 1..MaxInflight, result \in CapResults, diskOk \in BOOLEAN :
       registeredAgentPost_resume(i, result, diskOk)
  \/ \E agentId \in DOMAIN registeredAgents, k \in 1..VOTE_POOL, vote \in Directions,
        diskOk \in BOOLEAN : registeredAgentVote(agentId, k, vote, diskOk)

SpecDisk == InitLoaded(1, TRUE, TRUE) /\ [][NextDisk]_vars

BroadcastTypes == { ev.type : ev \in BroadcastEvents }

\* C15: whether the disk write of its save succeeds or fails, an operation
\* that has changed the posts also makes its broadcast to the open sessions
\* and its reply: a REST post is answered 200 and broadcast as new_post, a
\* generated post is broadcast as new_post, a registered-agent vote is
\* broadcast as update_post; and the process keeps running.
C15_SaveFailureCaught ==
  [][ /\ proc' = "running"
      /\ (req'.type = "rest_post" /\ posts' # posts)
           => /\ res'.status = 200
              /\ OpenSessions # {} => "new_post" \in BroadcastTypes'
      /\ (req'.type = "llm" /\ req'.routine = "registeredAgentPost" /\ posts' # posts)
           => (OpenSessions # {} => "new_post" \in BroadcastTypes')
      /\ (req'.type = "timer" /\ req'.routine = "registeredAgentVote" /\ posts' # posts)
           => (OpenSessions # {} => "update_post" \in BroadcastTypes')
    ]_vars

----------------------------------------------------------------------------
(* Messages the handler has no branch for *)

\* the text of a frame: not JSON, the JSON literal null, a JSON number, an
\* object without a type and objects with a type no branch tests for
RawMessages == {"{bad", "null", "42", "{}", "{\"type\":\"no_such\"}", "{\"type\":\"NEW_POST\"}"}

\* JSON.parse: it throws, or it gives a value, an object having its type
JSONParse(data) ==
  CASE data = "{bad" -> [threw |-> TRUE]
    [] data = "null" -> [threw |-> FALSE, isNull |-> TRUE, type |-> NULL]
    [] data = "42" -> [threw |-> FALSE, isNull |-> FALSE, type |-> NULL]
    [] data = "{}" -> [threw |-> FALSE, isNull |-> FALSE, type |-> NULL]
    [] data = "{\"type\":\"no_such\"}" -> [threw |-> FALSE, isNull |-> FALSE, type |-> "no_such"]
    [] OTHER -> [threw |-> FALSE, isNull |-> FALSE, type |-> "NEW_POST"]

\* some of the 44 types the chain of msg.type === '...' tests for
RecognizedTypes == {"set_username", "chat", "new_post", "vote", "comment", "token_comment",
                    "get_trending", "create_battle"}

catchBlock_reply(s) ==
  <<[to |-> s, via |-> "send", msg |-> [type |-> "error", message |-> "Invalid message"]]>>

\* } catch (e) {}
catchBlock(s) == <<>>

\* ws.on('message') for a frame that no branch handles
OtherMessage(s, data) ==
  /\ CanReceive(s)
  /\ LET msg == JSONParse(data)
         uw == WalletOf(s)
         c1 == getUser(Ctx(clients, readyState), uw)
     IN IF msg.threw
        THEN \* JSON.parse is the first statement of the try
             /\ out' = catchBlock(s)
             /\ UNCHANGED <<users, achievements>>
        ELSE /\ msg.type \notin RecognizedTypes
             /\ users' = c1.users
             /\ achievements' = c1.achievements
             \* msg.type of null throws after getUser; any other value falls
             \* through the chain
             /\ out' = c1.out \o (IF msg.isNull THEN catchBlock(s) ELSE <<>>)
  /\ inbox' = Delivered(out')
  /\ UNCHANGED extVars
  /\ req' = [type |-> "message", ws |-> s, wallet |-> WalletOf(s), data |-> data]
  /\ UNCHANGED <<now, clients, readyState, online, joinedAt, postVars, rateVars,
                 tokenDiscussion, regVars, res, schedVars>>

NextMsg ==
  \/ \E d \in TickSteps : Tick(d, MaxNow)
  \/ \E w \in {"", "ABC123"} : Connect("s1", w)
  \/ Connect("s2", "SNAI")
  \/ \E s \in Sessions : NewPost(s, NULL)
  \/ \E s \in Sessions, data \in RawMessages : OtherMessage(s, data)

SpecMsg == InitEmpty /\ [][NextMsg]_vars

\* C16: a frame that is not JSON, or whose type no branch tests for, is
\* answered with nothing: no write goes to any session, posts with their
\* votes and comments and the token discussion stay as they are, the
\* registry and the transports stay as they are, and the sender is still
\* registered and able to send.
C16_UnknownMessageIgnored ==
  [][ req'.type = "message"
      => /\ out' = <<>>
         /\ UNCHANGED <<posts, nextPostId, tokenDiscussion, clients, readyState, online>>
         /\ req'.ws \in Registered'
         /\ readyState'[req'.ws] = "OPEN"
         /\ proc' = "running"
    ]_vars

\* s1 sent a frame that is not JSON while s2 was listening and a post
\* existed; nothing was written and s1 is still registered
C16_Witness ==
  /\ req.type = "message"
  /\ req.data = "{bad"
  /\ req.ws = "s1"
  /\ req.wallet = "ABC123"
  /\ OpenSessions = {"s1", "s2"}
  /\ Len(posts) = 1
  /\ out = <<>>

----------------------------------------------------------------------------
(* POST /api/agents/register and the daily limit of registrations *)

MaxLimitNow == 86400002  \* the clock of the registration-limit specification stops here

DASH_NAME_MIN == 3
DASH_NAME_MAX == 20
DASH_HANDLE_MIN == 3
DASH_DESC_MIN == 20

LimitTickSteps == {43200001}

\* xHandle.toLowerCase().replace(/[^a-z0-9_]/g, '')
cleanDashboardHandle(xHandle) ==
  CASE xHandle \in {"@Bob_X", "Bob_X"} -> "bob_x"
    [] xHandle = "no way" -> "noway"
    [] OTHER -> toLowerCase(xHandle)

DashboardError(ra, name, xHandle, description) ==
  IF length(name) < DASH_NAME_MIN \/ length(name) > DASH_NAME_MAX
    THEN "Name must be 3-20 characters"
  ELSE IF length(xHandle) < DASH_HANDLE_MIN \/ length(xHandle) > HANDLE_MAX
    THEN "Handle must be 3-15 characters"
  ELSE IF length(description) < DASH_DESC_MIN
    THEN "Personality must be at least 20 characters"
  ELSE IF \E id \in DOMAIN ra :
            \/ toLowerCase(ra[id].name) = toLowerCase(name)
            \/ toLowerCase(ra[id].xHandle) = cleanDashboardHandle(xHandle)
    THEN "Name or handle already taken"
  ELSE NULL

\* POST /api/agents/register, for a body without a wallet
RegisterDashboard(ip, name, xHandle, description, diskOk) ==
  LET rc  == checkRegistrationRateLimit(registrationRateLimits, ip, now)
      err == DashboardError(registeredAgents, name, xHandle, description)
      agentId == idGen + 1
      apiKey  == idGen + 1
      agent == [id |-> agentId, name |-> trim(name), xHandle |-> cleanDashboardHandle(xHandle),
                registeredAt |-> now, active |-> TRUE, karma |-> INITIAL_AGENT_KARMA,
                postCount |-> 0, commentCount |-> 0, lastActive |-> now,
                activatedAt |-> NoTime, ownerId |-> ip]
  IN /\ proc = "running"
     /\ IF ~rc.ok
        THEN /\ res' = [status |-> 429, error |-> "Rate limit exceeded - 1 agent per IP"]
             /\ registrationRateLimits' = rc.map
             /\ out' = <<>>
             /\ UNCHANGED <<registeredAgents, agentApiKeys, idGen>>
        ELSE IF err # NULL
        THEN /\ res' = [status |-> 400, error |-> err]
             /\ registrationRateLimits' = rc.map
             /\ out' = <<>>
             /\ UNCHANGED <<registeredAgents, agentApiKeys, idGen>>
        ELSE /\ idGen < MaxAgents
             /\ idGen' = idGen + 1
             /\ agentApiKeys' = Put(agentApiKeys, apiKey,
                                    [agentId |-> agentId, createdAt |-> now, lastUsed |-> NoTime,
                                     active |-> TRUE])
             /\ registeredAgents' = Put(registeredAgents, agentId, agent)
             /\ registrationRateLimits' = incrementRegistrationRateLimit(rc.map, ip, now)
             \* saveRateLimits, saveRegisteredAgents and saveApiKeys write without a try
             /\ IF diskOk
                  THEN /\ res' = [status |-> 200, agentId |-> agentId, api_key |-> apiKey]
                       /\ out' = broadcast(clients, readyState, [type |-> "new_agent", id |-> agentId])
                  ELSE /\ res' = [status |-> 500, error |-> "Internal Server Error"]
                       /\ out' = <<>>
     /\ inbox' = Delivered(out')
     /\ UNCHANGED extVars
     /\ req' = [type |-> "register_dashboard", ip |-> ip, name |-> name, xHandle |-> xHandle,
                description |-> description]
     /\ UNCHANGED <<now, clients, readyState, online, joinedAt, postVars, userVars, rateVars,
                    tokenDiscussion, schedVars>>

NextLimit ==
  \/ \E d \in LimitTickSteps : Tick(d, MaxLimitNow)
  \/ Connect("s1", "")
  \/ \E name \in {"Bob", "B"} : RegisterV1("ip1", name, "a helpful agent", "@Bob_X", TRUE)
  \/ RegisterV1("ip1", "Eve", "a helpful agent", "eve_x", TRUE)
  \/ \E diskOk \in BOOLEAN :
       RegisterDashboard("ip1", "Kim", "kim_x", "an agent that helps people", diskOk)

SpecLimit == InitWith(0, TRUE) /\ [][NextLimit]_vars

RegisterTypes == {"register", "register_dashboard"}

\* the registrations of ip that succeeded in the 24 hours before t
RegisteredSince(ip, t) ==
  { id \in DOMAIN registeredAgents :
      registeredAgents[id].ownerId = ip /\ registeredAgents[id].registeredAt > t - DAY_MS }

RegisteredInWindow(ip) ==
  { id \in DOMAIN registeredAgents :
      /\ registeredAgents[id].ownerId = ip
      /\ registeredAgents[id].registeredAt >= registrationRateLimits[ip].resetAt - DAY_MS }

----------------------------------------------------------------------------
(* Votes: the entries of a post's voter map *)

\* direction > 0 ? 1 : direction < 0 ? -1 : 0
clampDirection(direction) == IF direction > 0 THEN 1 ELSE IF direction < 0 THEN -1 ELSE 0

\* POST /api/v1/agents/vote; body holds the direction of the request, if any
RestVote(api_key, post_id, body, diskOk) ==
  /\ proc = "running"
  /\ IF "direction" \notin DOMAIN body
       THEN /\ res' = [status |-> 400, error |-> "Missing api_key, post_id, or direction"]
            /\ out' = <<>>
            /\ UNCHANGED <<posts, registeredAgents, agentApiKeys>>
     ELSE IF api_key \notin DOMAIN agentApiKeys
       THEN /\ res' = [status |-> 401, error |-> "Invalid API key"]
            /\ out' = <<>>
            /\ UNCHANGED <<posts, registeredAgents, agentApiKeys>>
     ELSE LET agentId == agentApiKeys[api_key].agentId
              i == FindPost(posts, post_id)
          IN IF agentId \notin DOMAIN registeredAgents \/ ~registeredAgents[agentId].active
               THEN /\ res' = [status |-> 404, error |-> "Agent not found or not active"]
                    /\ out' = <<>>
                    /\ UNCHANGED <<posts, registeredAgents, agentApiKeys>>
             ELSE IF i = 0
               THEN /\ res' = [status |-> 404, error |-> "Post not found"]
                    /\ out' = <<>>
                    /\ UNCHANGED <<posts, registeredAgents, agentApiKeys>>
             ELSE LET post == posts[i]
                      oldVote == Get(post.voters, voteKey(agentId), 0)
                      newVote == clampDirection(body.direction)
                      np == [post EXCEPT !.votes = post.votes - oldVote + newVote,
                                         !.voters = Put(post.voters, voteKey(agentId), newVote)]
                  IN IF oldVote # newVote
                       THEN /\ posts' = [posts EXCEPT ![i] = np]
                            /\ registeredAgents' = [registeredAgents EXCEPT ![agentId].lastActive = now]
                            /\ agentApiKeys' = [agentApiKeys EXCEPT ![api_key].lastUsed = now]
                            \* saveRegisteredAgents() throws when the write fails
                            /\ IF diskOk
                                 THEN /\ res' = [status |-> 200, postId |-> post.id, votes |-> np.votes]
                                      /\ out' = broadcast(clients, readyState,
                                                          [type |-> "update_post", post |-> np])
                                 ELSE /\ res' = [status |-> 500, error |-> "Internal Server Error"]
                                      /\ out' = <<>>
                       ELSE /\ res' = [status |-> 200, postId |-> post.id, votes |-> post.votes]
                            /\ out' = <<>>
                            /\ UNCHANGED <<posts, registeredAgents, agentApiKeys>>
  /\ inbox' = Delivered(out')
  /\ UNCHANGED extVars
  /\ req' = [type |-> "rest_vote", api_key |-> api_key, post_id |-> post_id, body |-> body]
  /\ UNCHANGED <<now, clients, readyState, online, joinedAt, nextPostId, userVars, rateVars,
                 tokenDiscussion, registrationRateLimits, idGen, agents, userAgents, agentRooms,
                 battles, nextBattleId, tasks, proc>>

\* direction values a client can put in a vote message or a request body
ClientDirections == {-1, 1, 5}

NextVoters ==
  \/ Connect("s1", "ABC123")
  \/ \E direction \in ClientDirections : Vote("s1", 1, direction)
  \/ \E body \in {<< >>} \cup [direction : ClientDirections \cup {0}], diskOk \in BOOLEAN :
       RestVote(1, 1, body, diskOk)
  \/ \E vote \in Directions, diskOk \in BOOLEAN : registeredAgentVote(1, 1, vote, diskOk)

SpecVoters == InitLoaded(1, TRUE, TRUE) /\ [][NextVoters]_vars

\* C18: after any sequence of votes through the three paths every entry of
\* every post's voter map is -1, 0 or 1.
C18_VoterEntriesAreVotes ==
  \A i \in DOMAIN posts :
    \A voter \in DOMAIN posts[i].voters : posts[i].voters[voter] \in {-1, 0, 1}

----------------------------------------------------------------------------
(* Agent names in the combined listing *)

\* getAllAgentsWithRegistered(): the core agents, the user-created agents and
\* the active registered agents, each entry tagged with its collection
getAllAgentsWithRegistered ==
  { <<"core", i>> : i \in DOMAIN agents }
    \cup { <<"user", j>> : j \in 1..Len(userAgents.list) }
    \cup { <<"registered", id>> : id \in getActiveRegisteredAgents }

ListedName(entry) ==
  CASE entry[1] = "core" -> agents[entry[2]].name
    [] entry[1] = "user" -> userAgents.list[entry[2]].name
    [] entry[1] = "registered" -> registeredAgents[entry[2]].name

NextNames ==
  \/ Connect("s1", "ABC123")
  \/ RegisterV1("ip1", "Bob", "a helpful agent", "@Bob_X", TRUE)
  \/ RegisterV1("ip1", "bob ", "a helpful agent", "eve_x", TRUE)
  \/ \E agent_id \in 1..MaxAgents : ActivateV1(agent_id, agent_id, TRUE)
  \/ RegisterDashboard("ip2", "Kim", "kim_x", "an agent that helps people", TRUE)
  \/ \E deployer \in DOMAIN agents : maybeAgentDeploysAgent(deployer, "DataMiner", "running")
  \/ \E i \in 1..MaxInflight, result \in PlainResults : generateAgentIntroPost_resume(i, result)

SpecNames == InitWith(0, TRUE) /\ [][NextNames]_vars

\* C19: no two agents of the combined listing have the same name when
\* compared case-insensitively.
C19_ListedNamesUnique ==
  \A e1 \in getAllAgentsWithRegistered : \A e2 \in getAllAgentsWithRegistered :
    e1 # e2 => toLowerCase(ListedName(e1)) # toLowerCase(ListedName(e2))

----------------------------------------------------------------------------
(* Counters of an agent under interleaved routines *)

NextLost ==
  \/ Connect("s1", "ABC123")
  \/ agentComment("SNAI", 1)
  \/ \E i \in 1..MaxInflightPosts, result \in PlainResults : agentComment_resume(i, result)
  \/ \E hive \in TopicHives : generateKrabPost("SNAI", hive)
  \/ \E i \in 1..MaxInflightPosts, result \in CapResults, seed \in SeedVotes :
       generateKrabPost_resume(i, result, seed)

\* a settled API call runs its continuation, a due timer runs its callback
SpecLost == InitLoaded(1, TRUE, FALSE) /\ [][NextLost]_vars /\ WF_vars(NextLost)

\* the posts that generateKrabPost has written for the agent named n
WrittenPosts(n) == { i \in DOMAIN posts : posts[i].author = n /\ posts[i].id > 1 }

\* the comments that agentComment has written for the agent named n
WrittenComments(n) ==
  { <<i, j>> \in (DOMAIN posts) \X (1..(MaxComments + 1)) :
      j <= Len(posts[i].comments) /\ posts[i].comments[j].author = n }

\* every counter of the agent has grown by the sum of the completed increments
CountersMatch(n) ==
  /\ agents[n].postCount = Cardinality(WrittenPosts(n))
  /\ agents[n].commentCount = Cardinality(WrittenComments(n))
  /\ agents[n].karma = CoreAgents[n].karma + POST_KARMA * Cardinality(WrittenPosts(n))
                         + COMMENT_KARMA * Cardinality(WrittenComments(n))

\* C20 (amended): no interleaving of the scheduled routines loses an
\* increment: whatever the order in which suspended invocations complete, an
\* agent's postCount, commentCount and karma have grown by exactly the sum of
\* the increments of the completed invocations.
C20_NoLostUpdate == \A n \in DOMAIN agents : CountersMatch(n)

\* an invocation of the agent has completed its increments while another
\* invocation of the same agent, suspended before that step, is still waiting
C20_Witness ==
  /\ req.type = "llm"
  /\ req.result.ok
  /\ agents["SNAI"].karma > CoreAgents["SNAI"].karma
  /\ Len(tasks) > 0
  /\ tasks[1].agent = "SNAI"

\* C20: some interleaving of two suspended routines leaves a counter below
\* the sum of the two increments.
C20_LostUpdateReachable == <>(~CountersMatch("SNAI"))

----------------------------------------------------------------------------
(* POST /api/v1/user-agents/create *)

WALLET_MIN == 32
UA_NAME_MIN == 2
UA_NAME_MAX == 20
UA_PER_IP == 1
USER_AGENT_KARMA == 10
PUSHED_ID_BASE == 1000

MaxUserAgents == 2     \* agents created through /api/v1/user-agents/create

WalletInputs == {"ABC123", "So1anaWa11etAddre55Number0ne0001"}

\* Object.values(userAgents): the entries of the object, or the elements of
\* the array followed by its named properties
UserAgentValues(ua) == IF ua.isArray THEN ua.list \o ua.props ELSE ua.list

\* [...Object.values(userAgents), ...agents].some(a => a.name.toLowerCase() === name.toLowerCase())
UserAgentNameTaken(ua, ags, name) ==
  \/ \E j \in 1..Len(UserAgentValues(ua)) :
       toLowerCase(UserAgentValues(ua)[j].name) = toLowerCase(name)
  \/ \E a \in DOMAIN ags : toLowerCase(ags[a].name) = toLowerCase(name)

\* the byIP record after the check of the handler
IpChecked(byIP, ip, t) ==
  IF ip \in DOMAIN byIP /\ t - byIP[ip].timestamp >= DAY_MS
    THEN Put(byIP, ip, [timestamp |-> t, count |-> 0])
    ELSE byIP

CreateUserAgent(ip, wallet, name, diskOk) ==
  LET lim == agentCreationLimits
      byIP1 == IpChecked(lim.byIP, ip, now)
      agentId == <<"user", Len(UserAgentValues(userAgents)) + 1>>
      newAgent == [id |-> agentId, name |-> name, wallet |-> wallet,
                   karma |-> USER_AGENT_KARMA, postCount |-> 0, commentCount |-> 0,
                   creatorIP |-> ip]
      pushed == [id |-> Cardinality(DOMAIN agents) + PUSHED_ID_BASE, name |-> name,
                 karma |-> USER_AGENT_KARMA, postCount |-> 0, commentCount |-> 0,
                 topics |-> <<"general">>]
      byIP2 == IF ip \in DOMAIN byIP1 THEN byIP1
               ELSE Put(byIP1, ip, [timestamp |-> now, count |-> 0])
  IN /\ proc = "running"
     /\ IF length(wallet) < WALLET_MIN
        THEN /\ res' = [status |-> 400, error |-> "Invalid wallet address"]
             /\ out' = <<>>
             /\ UNCHANGED <<userAgents, agents, agentCreationLimits>>
        ELSE IF length(name) < UA_NAME_MIN \/ length(name) > UA_NAME_MAX
        THEN /\ res' = [status |-> 400, error |-> "Agent name must be 2-20 characters"]
             /\ out' = <<>>
             /\ UNCHANGED <<userAgents, agents, agentCreationLimits>>
        ELSE IF wallet \in DOMAIN lim.byWallet
        THEN /\ res' = [status |-> 400, error |-> "This wallet already has an agent"]
             /\ out' = <<>>
             /\ UNCHANGED <<userAgents, agents, agentCreationLimits>>
        ELSE IF /\ ip \in DOMAIN lim.byIP
                /\ now - lim.byIP[ip].timestamp < DAY_MS
                /\ lim.byIP[ip].count >= UA_PER_IP
        THEN /\ res' = [status |-> 429, error |-> "Only 1 agent per IP per day"]
             /\ out' = <<>>
             /\ UNCHANGED <<userAgents, agents, agentCreationLimits>>
        ELSE IF UserAgentNameTaken(userAgents, agents, name)
        THEN /\ res' = [status |-> 400, error |-> "Agent name already taken"]
             /\ out' = <<>>
             /\ agentCreationLimits' = [lim EXCEPT !.byIP = byIP1]
             /\ UNCHANGED <<userAgents, agents>>
        ELSE /\ Len(UserAgentValues(userAgents)) < MaxUserAgents
             \* userAgents[agentId] = newAgent
             /\ userAgents' = IF userAgents.isArray
                                THEN [userAgents EXCEPT !.props = Append(@, newAgent)]
                                ELSE [userAgents EXCEPT !.list = Append(@, newAgent)]
             \* saveUserAgents() writes without a try
             /\ IF diskOk
                  THEN /\ agentCreationLimits' =
                            [byIP |-> [byIP2 EXCEPT ![ip].count = @ + 1],
                             byWallet |-> Put(lim.byWallet, wallet, agentId)]
                       /\ agents' = Put(agents, name, pushed)
                       /\ res' = [status |-> 200, agentId |-> agentId]
                       /\ out' = broadcast(clients, readyState,
                                           [type |-> "new_agent", id |-> agentId])
                  ELSE /\ agentCreationLimits' = [lim EXCEPT !.byIP = byIP1]
                       /\ res' = [status |-> 500, error |-> "Internal Server Error"]
                       /\ out' = <<>>
                       /\ UNCHANGED agents
     /\ inbox' = Delivered(out')
     /\ req' = [type |-> "create_user_agent", ip |-> ip, wallet |-> wallet, name |-> name]
     /\ UNCHANGED <<now, clients, readyState, online, joinedAt, postVars, userVars, rateVars,
                    tokenDiscussion, regVars, agentRooms, battles, nextBattleId, tasks, proc,
                    govVars, tokenVars, botVars>>

NextOwner ==
  \/ Connect("s1", "ABC123")
  \/ \E ip \in Ips, wallet \in WalletInputs, name \in {"Bob", "Eve", "B"} :
       CreateUserAgent(ip, wallet, name, TRUE)
  \/ Restart

SpecOwner == InitEmpty /\ [][NextOwner]_vars

\* C21: each wallet owns at most one agent created through the endpoint.
C21_OneAgentPerWallet ==
  LET vs == UserAgentValues(userAgents)
  IN \A j \in 1..Len(vs) : \A k \in 1..Len(vs) : vs[j].wallet = vs[k].wallet => j = k

----------------------------------------------------------------------------
(* POST /api/v1/agents/post: the documented limit of posts per minute *)

\* a post that POST /api/v1/agents/post created for the saved agent
BurstPost(id) ==
  [id |-> id, hive |-> NULL, claw |-> "c/general", author |-> SavedAgents[1].name,
   wallet |-> NULL, votes |-> 1, voters |-> << >>, comments |-> <<>>, timestamp |-> 0,
   isAgentPost |-> TRUE, agentId |-> 1]

BurstPosts == [i \in 1..POSTS_PER_MINUTE |-> BurstPost(POSTS_PER_MINUTE + 1 - i)]

BurstAgents ==
  [SavedAgents EXCEPT ![1].postCount = POSTS_PER_MINUTE,
                      ![1].karma = @ + POSTS_PER_MINUTE * POST_KARMA]

\* start-up from the files of a run in which the saved agent created 10
\* posts through the endpoint at the time the run was stopped
InitBurst == InitDisk(BurstPosts, BurstAgents, TRUE, TRUE)

NextBurst ==
  \/ \E d \in TickSteps : Tick(d, MaxNow)
  \/ Connect("s1", "ABC123")
  \/ \E api_key \in 1..MaxAgents : RestPost(api_key, TRUE)

SpecBurst == InitBurst /\ [][NextBurst]_vars

\* the posts of the author created in the minute before t
PostsInLastMinute(author, t) ==
  { i \in DOMAIN posts : posts[i].author = author /\ posts[i].timestamp > t - MINUTE_MS }

\* C22: a post request of an active agent that has created 10 posts in the
\* last minute is answered 429 and creates no post.
C22_TenPostsPerMinute ==
  [][ (/\ req'.type = "rest_post"
       /\ req'.api_key \in DOMAIN agentApiKeys
       /\ agentApiKeys[req'.api_key].agentId \in getActiveRegisteredAgents
       /\ Cardinality(PostsInLastMinute(
            registeredAgents[agentApiKeys[req'.api_key].agentId].name, now)) >= POSTS_PER_MINUTE)
      => /\ res'.status = 429
         /\ UNCHANGED <<posts, nextPostId>>
    ]_vars

----------------------------------------------------------------------------
(* The SDK (src/scripts/snai-sdk.js) against the server *)

\* req.body.f of a JSON body
Field(body, f) == IF f \in DOMAIN body THEN body[f] ELSE NULL

\* the payload of SNAIAgent.register
RegisterPayload(name, personality, description) ==
  [name |-> name, personality |-> personality, description |-> description,
   topics |-> <<"general", "discussion">>, faction |-> "The Collective"]

\* SNAIAgent.register: POST /api/v1/agents/register with the payload
SNAIAgent_register(ip, name, personality, description) ==
  LET payload == RegisterPayload(name, personality, description)
  IN RegisterV1(ip, Field(payload, "name"), Field(payload, "description"),
                Field(payload, "x_handle"), TRUE)

\* SNAIAgent.post: POST /api/v1/agents/<agentId>/post with the key in the
\* X-API-Key header; the server has no route of this form
SNAIAgent_post(agentId, apiKey) ==
  /\ proc = "running"
  /\ res' = [status |-> 404, error |-> "Cannot POST"]
  /\ out' = <<>>
  /\ req' = [type |-> "sdk_post", agentId |-> agentId, apiKey |-> apiKey]
  /\ UNCHANGED <<now, sessVars, postVars, userVars, rateVars, tokenDiscussion, regVars,
                 schedVars, extVars>>

NextSdk ==
  \/ Connect("s1", "ABC123")
  \/ \E ip \in Ips, name \in {"Eve", "B"} :
       SNAIAgent_register(ip, name, "a helpful agent", "a helpful agent")
  \/ RegisterV1("ip1", "Kim", "a helpful agent", "kim_x", TRUE)
  \/ \E agent_id \in 1..MaxAgents : ActivateV1(agent_id, agent_id, TRUE)
  \/ \E agentId \in 1..MaxAgents : SNAIAgent_post(agentId, agentId)
  \/ \E api_key \in 1..MaxAgents : RestPost(api_key, TRUE)

SpecSdk == InitLoaded(0, TRUE, TRUE) /\ [][NextSdk]_vars

\* C23: a registration request without an x_handle field, as the SDK builds
\* it, with a valid name and a valid description is rejected only because of
\* the daily limit or because the name is taken, and an SDK post with the
\* credentials of an active agent is answered 200.
C23_SdkRegistersAndPosts ==
  /\ (/\ req.type = "register"
      /\ req.x_handle = NULL
      /\ length(req.name) >= NAME_MIN /\ length(req.name) <= NAME_MAX
      /\ length(req.description) >= DESC_MIN /\ length(req.description) <= DESC_MAX)
     => (res.status \in {200, 429} \/ res.error = "Name already taken")
  /\ (/\ req.type = "sdk_post"
      /\ req.apiKey \in DOMAIN agentApiKeys
      /\ agentApiKeys[req.apiKey].agentId = req.agentId
      /\ req.agentId \in getActiveRegisteredAgents)
     => res.status = 200

----------------------------------------------------------------------------
(* The REST agent endpoints: key and activation checks *)

KeyStatus_noActiveCheck(api_key) ==
  IF api_key \notin DOMAIN agentApiKeys THEN 401
  ELSE IF agentApiKeys[api_key].agentId \notin DOMAIN registeredAgents THEN 404
  ELSE 200

\* the status that the key and agent checks of an endpoint give
KeyStatus(api_key) ==
  IF api_key \notin DOMAIN agentApiKeys THEN 401
  ELSE IF \/ agentApiKeys[api_key].agentId \notin DOMAIN registeredAgents
          \/ ~registeredAgents[agentApiKeys[api_key].agentId].active THEN 404
  ELSE 200

KeyError(status) ==
  IF status = 401 THEN "Invalid API key" ELSE "Agent not found or not active"

\* POST /api/v1/agents/heartbeat
RestHeartbeat(api_key, diskOk) ==
  /\ proc = "running"
  /\ IF KeyStatus(api_key) # 200
       THEN /\ res' = [status |-> KeyStatus(api_key), error |-> KeyError(KeyStatus(api_key))]
            /\ UNCHANGED <<registeredAgents, agentApiKeys>>
       ELSE LET agentId == agentApiKeys[api_key].agentId
            IN /\ registeredAgents' = [registeredAgents EXCEPT ![agentId].lastActive = now]
               /\ agentApiKeys' = [agentApiKeys EXCEPT ![api_key].lastUsed = now]
               \* saveRegisteredAgents() throws when the write fails
               /\ res' = IF diskOk THEN [status |-> 200, agentId |-> agentId]
                         ELSE [status |-> 500, error |-> "Internal Server Error"]
  /\ out' = <<>>
  /\ req' = [type |-> "rest_heartbeat", api_key |-> api_key]
  /\ UNCHANGED <<now, sessVars, postVars, userVars, rateVars, tokenDiscussion,
                 registrationRateLimits, idGen, schedVars, extVars>>

\* POST /api/v1/agents/comment
RestComment(api_key, post_id, diskOk) ==
  /\ proc = "running"
  /\ LET i == FindPost(posts, post_id)
     IN IF KeyStatus(api_key) # 200
          THEN /\ res' = [status |-> KeyStatus(api_key), error |-> KeyError(KeyStatus(api_key))]
               /\ out' = <<>>
               /\ UNCHANGED <<posts, registeredAgents, agentApiKeys>>
        ELSE IF i = 0
          THEN /\ res' = [status |-> 404, error |-> "Post not found"]
               /\ out' = <<>>
               /\ UNCHANGED <<posts, registeredAgents, agentApiKeys>>
        ELSE LET agentId == agentApiKeys[api_key].agentId
                 a == registeredAgents[agentId]
                 comment == [author |-> a.name, wallet |-> NULL, text |-> <<"w">>,
                             timestamp |-> now, isAgent |-> TRUE, agentId |-> a.id]
                 np == [posts[i] EXCEPT !.comments = Append(@, comment)]
             IN /\ Len(posts[i].comments) < MaxComments
                /\ posts' = [posts EXCEPT ![i] = np]
                /\ registeredAgents' = [registeredAgents EXCEPT
                                          ![agentId].commentCount = @ + 1,
                                          ![agentId].karma = @ + COMMENT_KARMA,
                                          ![agentId].lastActive = now]
                /\ agentApiKeys' = [agentApiKeys EXCEPT ![api_key].lastUsed = now]
                \* saveRegisteredAgents() throws when the write fails
                /\ IF diskOk
                     THEN /\ res' = [status |-> 200, post_id |-> post_id]
                          /\ out' = broadcast(clients, readyState,
                                              [type |-> "update_post", post |-> np])
                                    \o broadcast(clients, readyState,
                                         [type |-> "activity", kind |-> "commented",
                                          actor |-> a.name])
                     ELSE /\ res' = [status |-> 500, error |-> "Internal Server Error"]
                          /\ out' = <<>>
  /\ inbox' = Delivered(out')
  /\ req' = [type |-> "rest_comment", api_key |-> api_key, post_id |-> post_id]
  /\ UNCHANGED <<now, clients, readyState, online, joinedAt, nextPostId, userVars, rateVars,
                 tokenDiscussion, registrationRateLimits, idGen, schedVars, extVars>>

NextKeys ==
  \/ Connect("s1", "ABC123")
  \/ RegisterV1("ip2", "Eve", "a helpful agent", "eve_x", TRUE)
  \/ ActivateV1(2, 2, TRUE)
  \/ \E api_key \in 1..MaxAgents : RestPost(api_key, TRUE)
  \/ \E api_key \in 1..MaxAgents, diskOk \in BOOLEAN : RestComment(api_key, 1, diskOk)
  \/ \E api_key \in 1..MaxAgents : RestVote(api_key, 1, [direction |-> 1], TRUE)
  \/ \E api_key \in 1..MaxAgents, diskOk \in BOOLEAN : RestHeartbeat(api_key, diskOk)

SpecKeys == InitLoaded(1, TRUE, TRUE) /\ [][NextKeys]_vars

RestTypes == {"rest_post", "rest_comment", "rest_vote", "rest_heartbeat"}

\* the agents and keys other than those of agentId are as before the step
OnlyAgentTouched(agentId, api_key) ==
  /\ DOMAIN registeredAgents' = DOMAIN registeredAgents
  /\ \A id \in DOMAIN registeredAgents : id # agentId => registeredAgents'[id] = registeredAgents[id]
  /\ \A k \in DOMAIN agentApiKeys : k # api_key => agentApiKeys'[k] = agentApiKeys[k]

\* what the step added to the posts carries the name and id of the agent
AttributedTo(agentId) ==
  LET a == registeredAgents[agentId]
  IN /\ req'.type = "rest_post" =>
          /\ Len(posts') = Len(posts) + 1
          /\ posts'[1].author = a.name /\ posts'[1].agentId = a.id
          /\ SubSeq(posts', 2, Len(posts')) = posts
     /\ req'.type = "rest_comment" =>
          \A i \in DOMAIN posts :
            \/ posts'[i] = posts[i]
            \/ /\ posts'[i].comments # posts[i].comments
               /\ posts'[i].comments[Len(posts'[i].comments)].author = a.name
               /\ posts'[i].comments[Len(posts'[i].comments)].agentId = a.id
               /\ SubSeq(posts'[i].comments, 1, Len(posts[i].comments)) = posts[i].comments
     /\ req'.type = "rest_vote" =>
          \A i \in DOMAIN posts :
            \A voter \in DOMAIN posts'[i].voters :
              voter # voteKey(agentId) =>
                voter \in DOMAIN posts[i].voters /\ posts'[i].voters[voter] = posts[i].voters[voter]
     /\ req'.type = "rest_heartbeat" => posts' = posts

----------------------------------------------------------------------------
(* Activation of registered agents *)

NextActive ==
  \/ \E d \in TickSteps : Tick(d, MaxNow)
  \/ Connect("s1", "ABC123")
  \/ RegisterV1("ip1", "Bob", "a helpful agent", "Bob_X", TRUE)
  \/ RegisterV1("ip2", "Eve", "a helpful agent", "eve_x", TRUE)
  \/ \E agent_id \in 1..MaxAgents, api_key \in 1..MaxAgents, diskOk \in BOOLEAN :
       ActivateV1(agent_id, api_key, diskOk)
  \/ \E api_key \in 1..MaxAgents : RestHeartbeat(api_key, TRUE)

SpecActive == InitWith(0, TRUE) /\ [][NextActive]_vars

\* the key of the activate request was issued for the agent it names
IssuedFor(api_key, agent_id) ==
  api_key \in DOMAIN agentApiKeys /\ agentApiKeys[api_key].agentId = agent_id

\* C25: an agent of /api/v1/agents/register starts inactive; it becomes active
\* only in an activate request whose key was issued for its id, any other key
\* being answered 401; an active agent stays active; and activating an active
\* agent changes no state, activatedAt included, and broadcasts nothing.
C25_ActivationOnlyByOwnKey ==
  [][ /\ \A id \in DOMAIN registeredAgents' \ DOMAIN registeredAgents :
           req'.type = "register" => ~registeredAgents'[id].active
      /\ \A id \in DOMAIN registeredAgents :
           /\ id \in DOMAIN registeredAgents'
           /\ registeredAgents[id].active =>
                /\ registeredAgents'[id].active
                /\ registeredAgents'[id].activatedAt = registeredAgents[id].activatedAt
           /\ ~registeredAgents[id].active /\ registeredAgents'[id].active =>
                /\ req'.type = "activate" /\ req'.agent_id = id
                /\ IssuedFor(req'.api_key, id)
      /\ req'.type = "activate" =>
           /\ ~IssuedFor(req'.api_key, req'.agent_id) =>
                res'.status = 401 /\ UNCHANGED <<registeredAgents, agentApiKeys>>
           /\ /\ IssuedFor(req'.api_key, req'.agent_id)
              /\ req'.agent_id \in DOMAIN registeredAgents
              /\ registeredAgents[req'.agent_id].active
              => /\ out' = <<>>
                 /\ UNCHANGED <<now, sessVars, postVars, userVars, rateVars, tokenDiscussion,
                                regVars, schedVars, extVars>>
    ]_vars

\* an active agent was activated again, later than its first activation
C25_Witness ==
  /\ req.type = "activate"
  /\ IssuedFor(req.api_key, req.agent_id)
  /\ res.status = 200 /\ res.message = "Agent is already active"
  /\ registeredAgents[req.agent_id].activatedAt < now
  /\ \E id \in DOMAIN registeredAgents : ~registeredAgents[id].active

----------------------------------------------------------------------------
(* The REST vote and the voter map it shares with the WebSocket vote *)

\* the wallet of a connection is the wallet parameter of its URL, whatever it holds
AgentKeyWallet == voteKey(1)

NextTally ==
  \/ Connect("s1", AgentKeyWallet)
  \/ Connect("s2", "ABC123")
  \/ \E s \in Sessions, direction \in ClientDirections : Vote(s, 1, direction)
  \/ \E body \in [direction : ClientDirections \cup {0}] : RestVote(1, 1, body, TRUE)
  \/ \E vote \in Directions : registeredAgentVote(1, 1, vote, TRUE)

SpecTally == InitLoaded(1, TRUE, TRUE) /\ [][NextTally]_vars

\* C26: a vote through the REST endpoint changes the tally of the post by the
\* new vote minus the old one, which is between -2 and 2, and a vote with the
\* direction the agent already holds changes nothing.
C26_RestVoteDelta ==
  [][ req'.type = "rest_vote" =>
        \A i \in DOMAIN posts :
          /\ posts'[i].votes - posts[i].votes \in -2..2
          /\ Get(posts[i].voters, voteKey(1), 0) = clampDirection(req'.body.direction)
               => posts'[i] = posts[i]
    ]_posts

----------------------------------------------------------------------------
(* Battles: create_battle requests that overlap *)

NextBattle ==
  \/ \E s \in Sessions : Connect(s, "ABC123")
  \* a session sends its request while no request of its own is suspended
  \/ \E s \in Sessions :
       /\ \A i \in 1..Len(tasks) : tasks[i].ws # s
       /\ CreateBattleUnder(MaxOverlap, s, "SNAI", "Nexus-7")
  \/ \E i \in 1..MaxOverlap, result \in PlainResults : createBattle_resume(i, result)

SpecBattle == InitRoutines /\ [][NextBattle]_vars

ActiveBattles == {k \in 1..Len(battles) : battles[k].status = "active"}

\* C27: at most one battle has status 'active' at any time.
C27_OneActiveBattle == Cardinality(ActiveBattles) <= 1

----------------------------------------------------------------------------
(* Battles and proposals: votes *)

MaxProposals == 1       \* proposals created in a run
MaxGovNow == 259200001  \* the clock passes the end of a battle and a proposal created at 0

\* wallets of voters of an earlier run
VoterPool ==
  <<"W01", "W02", "W03", "W04", "W05", "W06", "W07", "W08", "W09", "W10",
    "W11", "W12", "W13", "W14", "W15", "W16", "W17", "W18", "W19", "W20",
    "W21", "W22", "W23", "W24", "W25", "W26", "W27", "W28", "W29", "W30",
    "W31", "W32", "W33", "W34", "W35", "W36", "W37", "W38", "W39", "W40",
    "W41", "W42", "W43", "W44", "W45", "W46", "W47", "W48", "W49", "W50",
    "W51", "W52", "W53", "W54", "W55", "W56", "W57", "W58", "W59", "W60",
    "W61", "W62", "W63", "W64", "W65", "W66", "W67", "W68", "W69", "W70",
    "W71", "W72", "W73", "W74", "W75", "W76", "W77", "W78", "W79", "W80",
    "W81", "W82", "W83", "W84", "W85", "W86", "W87", "W88", "W89", "W90",
    "W91", "W92", "W93", "W94", "W95", "W96", "W97", "W98", "W99">>

FindProposal(ps, id) ==
  IF \E k \in 1..Len(ps) : ps[k].id = id
  THEN CHOOSE k \in 1..Len(ps) : ps[k].id = id
  ELSE 0

\* a voter map of the first n wallets of the pool: the first m chose a, the others b
PoolVoters(n, m, a, b) ==
  [w \in {VoterPool[i] : i \in 1..n} |->
     IF \E i \in 1..m : VoterPool[i] = w THEN a ELSE b]

\* battles.json of a run in which 48 wallets voted on the battle of SNAI and Nexus-7
SavedBattles ==
  <<[id |-> 1, agent1 |-> "SNAI", agent2 |-> "Nexus-7",
     responses |-> ("SNAI" :> <<"w">>) @@ ("Nexus-7" :> <<"w">>),
     votes |-> ("SNAI" :> 25) @@ ("Nexus-7" :> BATTLE_VOTE_CAP - 27),
     voters |-> PoolVoters(BATTLE_VOTE_CAP - 2, 25, "SNAI", "Nexus-7"),
     status |-> "active", winner |-> NULL, createdAt |-> 0, endsAt |-> BATTLE_MS]>>

\* governance.json of a run in which 98 wallets voted on a proposal
SavedProposals ==
  <<[id |-> 1, creator |-> "W01", creatorName |-> "W01",
     votes |-> [yes |-> 50, no |-> PROPOSAL_VOTE_CAP - 52],
     voters |-> PoolVoters(PROPOSAL_VOTE_CAP - 2, 50, "yes", "no"),
     status |-> "active", createdAt |-> 0, endsAt |-> PROPOSAL_MS]>>

\* users.json: a user with the karma that creating a proposal needs
SavedUsers ==
  "ABC123" :> [karma |-> PROPOSAL_KARMA, postCount |-> 0, commentCount |-> 0, lastSeen |-> 0]

InitBallot ==
  InitFiles(SavedPosts(1), SavedAgents, TRUE, FALSE, SavedUsers, SavedBattles, SavedProposals)

voteBattle_afterClose(bs, t, battleId, wallet, votedFor) ==
  LET k == FindBattle(bs, battleId)
  IN IF k = 0 THEN [ok |-> FALSE]
     ELSE IF wallet \in DOMAIN bs[k].voters THEN [ok |-> FALSE]
     ELSE IF votedFor # bs[k].agent1 /\ votedFor # bs[k].agent2 THEN [ok |-> FALSE]
     ELSE LET b1 == [bs[k] EXCEPT !.voters = Put(@, wallet, votedFor),
                                  !.votes[votedFor] = @ + 1]
              totalVotes == b1.votes[b1.agent1] + b1.votes[b1.agent2]
              b2 == IF t > b1.endsAt \/ totalVotes >= BATTLE_VOTE_CAP
                      THEN [b1 EXCEPT !.status = "completed", !.winner = BattleWinner(b1)]
                      ELSE b1
          IN [ok |-> TRUE, k |-> k, battle |-> b2]

\* voteBattle: the battle after the vote, or null
voteBattle(bs, t, battleId, wallet, votedFor) ==
  LET k == FindBattle(bs, battleId)
  IN IF k = 0 THEN [ok |-> FALSE]
     ELSE IF bs[k].status # "active" THEN [ok |-> FALSE]
     ELSE IF wallet \in DOMAIN bs[k].voters THEN [ok |-> FALSE]
     ELSE IF votedFor # bs[k].agent1 /\ votedFor # bs[k].agent2 THEN [ok |-> FALSE]
     ELSE LET b1 == [bs[k] EXCEPT !.voters = Put(@, wallet, votedFor),
                                  !.votes[votedFor] = @ + 1]
              totalVotes == b1.votes[b1.agent1] + b1.votes[b1.agent2]
              b2 == IF t > b1.endsAt \/ totalVotes >= BATTLE_VOTE_CAP
                      THEN [b1 EXCEPT !.status = "completed", !.winner = BattleWinner(b1)]
                      ELSE b1
          IN [ok |-> TRUE, k |-> k, battle |-> b2]

\* voteProposal: the proposal after the vote, or null
voteProposal(ps, t, proposalId, wallet, vote) ==
  LET k == FindProposal(ps, proposalId)
  IN IF k = 0 THEN [ok |-> FALSE]
     ELSE IF ps[k].status # "active" THEN [ok |-> FALSE]
     ELSE IF wallet \in DOMAIN ps[k].voters THEN [ok |-> FALSE]
     ELSE IF vote # "yes" /\ vote # "no" THEN [ok |-> FALSE]
     ELSE LET p1 == [ps[k] EXCEPT !.voters = Put(@, wallet, vote), !.votes[vote] = @ + 1]
              totalVotes == p1.votes.yes + p1.votes.no
              p2 == IF t > p1.endsAt \/ totalVotes >= PROPOSAL_VOTE_CAP
                      THEN [p1 EXCEPT !.status = ProposalOutcome(p1)]
                      ELSE p1
          IN [ok |-> TRUE, k |-> k, proposal |-> p2]

\* msg.type === 'vote_battle'
VoteBattle(s, battleId, votedFor) ==
  /\ CanReceive(s)
  /\ LET uw == WalletOf(s)
         c1 == getUser(Ctx(clients, readyState), uw)
         result == voteBattle(battles, now, battleId, uw, votedFor)
     IN IF uw = ""
        THEN /\ out' = <<[to |-> s, via |-> "send", msg |->
                          [type |-> "error", message |-> "Connect wallet to vote"]]>>
             /\ UNCHANGED <<users, achievements, battles, agents>>
        ELSE IF ~result.ok
        THEN /\ out' = c1.out \o <<[to |-> s, via |-> "send", msg |->
                          [type |-> "error", message |-> "Cannot vote on this battle"]]>>
             /\ users' = c1.users
             /\ achievements' = c1.achievements
             /\ UNCHANGED <<battles, agents>>
        ELSE /\ battles' = [battles EXCEPT ![result.k] = result.battle]
             \* the winner agent of a battle that this vote completed gains karma
             /\ agents' = IF /\ result.battle.status = "completed"
                             /\ result.battle.winner \in DOMAIN agents
                            THEN [agents EXCEPT ![result.battle.winner].karma = @ + BATTLE_WIN_KARMA]
                            ELSE agents
             /\ users' = [c1.users EXCEPT ![uw].karma = @ + 1]
             /\ achievements' = c1.achievements
             /\ out' = c1.out \o broadcast(clients, readyState,
                                           [type |-> "update_battle", battle |-> result.battle])
  /\ inbox' = Delivered(out')
  /\ req' = [type |-> "vote_battle", ws |-> s, wallet |-> WalletOf(s), battleId |-> battleId,
             votedFor |-> votedFor]
  /\ UNCHANGED <<now, clients, readyState, online, joinedAt, postVars, rateVars, tokenDiscussion,
                 regVars, res, userAgents, agentRooms, nextBattleId, tasks, proc, extVars>>

\* msg.type === 'vote_proposal'
VoteProposal(s, proposalId, vote) ==
  /\ CanReceive(s)
  /\ LET uw == WalletOf(s)
         c1 == getUser(Ctx(clients, readyState), uw)
         result == voteProposal(proposals, now, proposalId, uw, vote)
     IN IF uw = ""
        THEN /\ out' = <<[to |-> s, via |-> "send", msg |->
                          [type |-> "error", message |-> "Connect wallet to vote"]]>>
             /\ UNCHANGED <<users, achievements, proposals>>
        ELSE IF ~result.ok
        THEN /\ out' = c1.out \o <<[to |-> s, via |-> "send", msg |->
                          [type |-> "error", message |-> "Cannot vote on this proposal"]]>>
             /\ users' = c1.users
             /\ achievements' = c1.achievements
             /\ UNCHANGED proposals
        ELSE /\ proposals' = [proposals EXCEPT ![result.k] = result.proposal]
             /\ users' = [c1.users EXCEPT ![uw].karma = @ + 1]
             /\ achievements' = c1.achievements
             /\ out' = c1.out \o broadcast(clients, readyState,
                                           [type |-> "update_proposal", proposal |-> result.proposal])
  /\ inbox' = Delivered(out')
  /\ req' = [type |-> "vote_proposal", ws |-> s, wallet |-> WalletOf(s),
             proposalId |-> proposalId, vote |-> vote]
  /\ UNCHANGED <<now, clients, readyState, online, joinedAt, postVars, rateVars, tokenDiscussion,
                 regVars, res, schedVars, agentCreationLimits, nextProposalId, tokenVars, botVars>>

\* msg.type === 'create_proposal'; hasTitle tells whether msg.title is set
CreateProposal(s, hasTitle) ==
  /\ CanReceive(s)
  /\ LET uw == WalletOf(s)
         c1 == getUser(Ctx(clients, readyState), uw)
         proposal == [id |-> nextProposalId, creator |-> uw, creatorName |-> getDisplayName(uw),
                      votes |-> [yes |-> 0, no |-> 0], voters |-> << >>, status |-> "active",
                      createdAt |-> now, endsAt |-> now + PROPOSAL_MS]
         ev == [type |-> "new_proposal", proposal |-> proposal]
     IN IF uw = ""
        THEN /\ out' = <<[to |-> s, via |-> "send", msg |->
                          [type |-> "error", message |-> "Connect wallet"]]>>
             /\ UNCHANGED <<users, achievements, proposals, nextProposalId>>
        ELSE IF ~hasTitle
        THEN /\ out' = c1.out \o <<[to |-> s, via |-> "send", msg |->
                          [type |-> "error", message |-> "Title required"]]>>
             /\ users' = c1.users
             /\ achievements' = c1.achievements
             /\ UNCHANGED <<proposals, nextProposalId>>
        ELSE IF c1.users[uw].karma < PROPOSAL_KARMA
        THEN /\ out' = c1.out \o <<[to |-> s, via |-> "send", msg |->
                          [type |-> "error", message |-> "Need at least 10 karma to create proposals"]]>>
             /\ users' = c1.users
             /\ achievements' = c1.achievements
             /\ UNCHANGED <<proposals, nextProposalId>>
        ELSE /\ nextProposalId <= MaxProposals
             /\ proposals' = Take(<<proposal>> \o proposals, PROPOSAL_CAP)
             /\ nextProposalId' = nextProposalId + 1
             /\ users' = c1.users
             /\ achievements' = c1.achievements
             \* createProposal broadcasts the proposal and so does the handler
             /\ out' = c1.out \o broadcast(clients, readyState, ev)
                              \o broadcast(clients, readyState, ev)
  /\ inbox' = Delivered(out')
  /\ req' = [type |-> "create_proposal", ws |-> s, wallet |-> WalletOf(s)]
  /\ UNCHANGED <<now, clients, readyState, online, joinedAt, postVars, rateVars, tokenDiscussion,
                 regVars, res, schedVars, agentCreationLimits, tokenVars, botVars>>

\* msg.type === 'get_battles' and msg.type === 'get_proposals'
GetBallots(s, kind) ==
  /\ CanReceive(s)
  /\ LET uw == WalletOf(s)
         c1 == getUser(Ctx(clients, readyState), uw)
     IN /\ users' = c1.users
        /\ achievements' = c1.achievements
        /\ IF kind = "get_battles"
             THEN /\ battles' = getActiveBattles(battles, now)
                  /\ out' = c1.out \o <<[to |-> s, via |-> "send", msg |->
                               [type |-> "battles", recent |-> Take(battles', 10)]]>>
                  /\ UNCHANGED proposals
             ELSE /\ proposals' = getActiveProposals(proposals, now)
                  /\ out' = c1.out \o <<[to |-> s, via |-> "send", msg |->
                               [type |-> "proposals", all |-> Take(proposals', 20)]]>>
                  /\ UNCHANGED battles
  /\ inbox' = Delivered(out')
  /\ req' = [type |-> kind, ws |-> s, wallet |-> WalletOf(s)]
  /\ UNCHANGED <<now, clients, readyState, online, joinedAt, postVars, rateVars, tokenDiscussion,
                 regVars, res, agents, userAgents, agentRooms, nextBattleId, tasks, proc,
                 agentCreationLimits, nextProposalId, tokenVars, botVars>>

GovTickSteps == {PROPOSAL_MS + 1}

NextBallot ==
  \/ \E d \in GovTickSteps : Tick(d, MaxGovNow)
  \/ Connect("s1", "ABC123")
  \/ Connect("s2", "XYZ789")
  \/ \E s \in Sessions, votedFor \in {"SNAI", "Nexus-7", "Pincer"} : VoteBattle(s, 1, votedFor)
  \/ \E s \in Sessions, vote \in {"yes", "no", "maybe"} : VoteProposal(s, 1, vote)
  \/ \E s \in Sessions, kind \in {"get_battles", "get_proposals"} : GetBallots(s, kind)

SpecBallot == InitBallot /\ [][NextBallot]_vars

BattleTotal(b) == b.votes[b.agent1] + b.votes[b.agent2]
ProposalTotal(p) == p.votes.yes + p.votes.no

\* the tallies of every battle and proposal count the entries of its voter map
TalliesCountVoters(bs, ps) ==
  /\ \A k \in 1..Len(bs) :
       /\ BattleTotal(bs[k]) = Cardinality(DOMAIN bs[k].voters)
       /\ BattleTotal(bs[k]) <= BATTLE_VOTE_CAP
  /\ \A k \in 1..Len(ps) :
       /\ ProposalTotal(ps[k]) = Cardinality(DOMAIN ps[k].voters)
       /\ ProposalTotal(ps[k]) <= PROPOSAL_VOTE_CAP

\* C28: for every battle and proposal the tallies sum to the number of
\* entries of the voter map, at most 50 for a battle and 100 for a proposal;
\* a vote of a wallet that is in the voter map is not counted; and a battle
\* or proposal whose status is completed, passed or rejected stays as it is.
C28_OneVotePerWalletUntilClosed ==
  [][ /\ TalliesCountVoters(battles, proposals)
      /\ TalliesCountVoters(battles', proposals')
      /\ \A k \in 1..Len(battles) :
           /\ battles[k].status \notin {"active", "pending"} =>
                battles'[FindBattle(battles', battles[k].id)] = battles[k]
           /\ req'.type = "vote_battle" /\ req'.wallet \in DOMAIN battles[k].voters =>
                battles'[FindBattle(battles', battles[k].id)] = battles[k]
      /\ \A k \in 1..Len(proposals) :
           /\ proposals[k].status # "active" =>
                proposals'[FindProposal(proposals', proposals[k].id)] = proposals[k]
           /\ req'.type = "vote_proposal" /\ req'.wallet \in DOMAIN proposals[k].voters =>
                proposals'[FindProposal(proposals', proposals[k].id)] = proposals[k]
    ]_<<battles, proposals>>

\* the battle holds 50 votes and the proposal 100, both are closed, and a
\* further vote on the battle was refused
C28_Witness ==
  /\ battles # <<>> /\ BattleTotal(battles[Len(battles)]) = BATTLE_VOTE_CAP
  /\ battles[Len(battles)].status = "completed"
  /\ ProposalTotal(proposals[Len(proposals)]) = PROPOSAL_VOTE_CAP
  /\ proposals[Len(proposals)].status # "active"
  /\ req.type = "vote_battle"
  /\ \E i \in 1..Len(out) : out[i].msg.type = "error"

----------------------------------------------------------------------------
(* Proposals: votes after the end time *)

InitDecide ==
  InitFiles(SavedPosts(1), SavedAgents, TRUE, FALSE, SavedUsers, <<>>, <<>>)

NextDecide ==
  \/ \E d \in GovTickSteps : Tick(d, MaxGovNow)
  \/ Connect("s1", "ABC123")
  \/ Connect("s2", "XYZ789")
  \/ \E s \in Sessions, hasTitle \in BOOLEAN : CreateProposal(s, hasTitle)
  \/ \E s \in Sessions, id \in 1..MaxProposals, vote \in {"yes", "no"} :
       VoteProposal(s, id, vote)
  \/ \E s \in Sessions : GetBallots(s, "get_proposals")

SpecDecide == InitDecide /\ [][NextDecide]_vars

\* C29: a vote on a proposal that is cast after the proposal's end time is
\* not counted, so that the proposal is decided on the votes cast up to its
\* end time.
C29_NoVoteAfterEnd ==
  [][ req'.type = "vote_proposal" =>
        \A k \in 1..Len(proposals) :
          now > proposals[k].endsAt => proposals'[k].votes = proposals[k].votes
    ]_proposals

----------------------------------------------------------------------------
(* Agent tokens: agentCreatesToken *)

TokenResults ==
  {[ok |-> FALSE], [ok |-> TRUE, text |-> <<"w">>],
   [ok |-> TRUE, text |-> <<"$TKN", "|", "Token", "|", "w">>]}

\* text.split('|').length
SplitLength(text) == Cardinality({i \in 1..Len(text) : text[i] = "|"}) + 1

\* agents.filter(a => !existingCreators.includes(a.name) && a.name !== 'SNAI')
EligibleAgents ==
  {a \in DOMAIN agents :
     a # "SNAI" /\ ~\E k \in 1..Len(agentTokens) : agentTokens[k].creator = a}

\* the one-shot timer or the interval fires: the routine up to its await
agentCreatesToken(creator) ==
  /\ proc = "running"
  /\ creator \in EligibleAgents
  /\ Len(tasks) < MaxOverlap
  /\ tasks' = Append(tasks, [kind |-> "agentCreatesToken", creator |-> creator, wrote |-> FALSE])
  /\ req' = [type |-> "timer", routine |-> "agentCreatesToken", escaped |-> FALSE]
  /\ out' = <<>>
  /\ UNCHANGED <<now, sessVars, postVars, userVars, rateVars, tokenDiscussion, regVars, res,
                 agents, userAgents, agentRooms, battles, nextBattleId, proc, extVars>>

\* the continuation after anthropic.messages.create settles
agentCreatesToken_resume(i, result) ==
  /\ proc = "running"
  /\ i \in 1..Len(tasks)
  /\ tasks[i].kind = "agentCreatesToken"
  /\ LET t == tasks[i]
     IN IF result.ok /\ SplitLength(result.text) >= 3
        THEN /\ CreatedPosts < MaxPostId
             /\ LET token == [id |-> nextTokenId, creator |-> t.creator]
                    post == [id |-> nextPostId, hive |-> "c/crypto", claw |-> NULL,
                             author |-> t.creator, wallet |-> NULL, votes |-> 1,
                             voters |-> << >>, comments |-> <<>>, timestamp |-> now,
                             isAgentPost |-> TRUE, title |-> <<"w">>, content |-> <<"w">>]
                IN /\ agentTokens' = Append(agentTokens, token)
                   /\ nextTokenId' = nextTokenId + 1
                   \* posts.unshift(post) without a slice
                   /\ posts' = <<post>> \o posts
                   /\ nextPostId' = nextPostId + 1
                   /\ out' = broadcast(clients, readyState, [type |-> "new_post", post |-> post])
                             \o broadcast(clients, readyState,
                                          [type |-> "new_agent_token", token |-> token])
        ELSE \* the call threw (caught), or the text has fewer than 3 parts
             /\ out' = <<>>
             /\ UNCHANGED <<posts, nextPostId, agentTokens, nextTokenId>>
  /\ tasks' = RemoveAt(tasks, i)
  /\ inbox' = Delivered(out')
  /\ req' = Settled(tasks[i], result)
  /\ UNCHANGED <<now, clients, readyState, online, joinedAt, userVars, rateVars, tokenDiscussion,
                 regVars, res, agents, userAgents, agentRooms, battles, nextBattleId, proc,
                 agentCreationLimits, govVars, botVars>>

NextToken ==
  \/ \E d \in TickSteps : Tick(d, MaxNow)
  \/ Connect("s1", "ABC123")
  \/ \E creator \in DOMAIN agents : agentCreatesToken(creator)
  \/ \E i \in 1..MaxOverlap, result \in TokenResults : agentCreatesToken_resume(i, result)

SpecToken == InitLoaded(0, TRUE, TRUE) /\ [][NextToken]_vars

\* C30: no agent is the creator of more than one agent token.
C30_OneTokenPerCreator ==
  \A j, k \in 1..Len(agentTokens) :
    agentTokens[j].creator = agentTokens[k].creator => j = k

----------------------------------------------------------------------------
(* Rooms: the cap of 50 messages *)

MaxRoomFill == 52       \* messages a room is filled to: the cap and the two of one more run

NextRoom ==
  \/ Connect("s1", "ABC123")
  \* one invocation at a time, whose calls return a text
  \/ /\ tasks = <<>>
     /\ agentRoomConversation("public-square", "SNAI", "Nexus-7")
  \/ \E result \in {r \in PlainResults : r.ok} :
       agentRoomConversation_resumeUnder(MaxRoomFill, 1, result)

SpecRoom == InitWith(0, TRUE) /\ [][NextRoom]_vars

\* C31: every room holds at most 50 messages whenever no routine step is running.
C31_RoomAtMost50 ==
  \A roomId \in DOMAIN agentRooms : Len(agentRooms[roomId].messages) <= ROOM_CAP

----------------------------------------------------------------------------
(* Deleting a post (server.js 5304-5312) and the order of post ids *)

\* ws message {type: 'delete_post', postId}
DeletePost(s, postId) ==
  /\ CanReceive(s)
  /\ LET uw == WalletOf(s)
         c1 == getUser(Ctx(clients, readyState), uw)
         idx == FindPost(posts, postId)
     IN /\ users' = c1.users
        /\ achievements' = c1.achievements
        /\ IF idx # 0 /\ posts[idx].wallet = uw
           THEN LET ps == RemoveAt(posts, idx)
                IN /\ posts' = ps
                   /\ out' = c1.out
                             \o broadcast(clients, readyState, [type |-> "delete_post", postId |-> postId])
                             \o broadcast(clients, readyState,
                                          [type |-> "state", posts |-> Len(ps),
                                           comments |-> getTotalComments(ps)])
           ELSE /\ out' = c1.out
                /\ UNCHANGED posts
  /\ inbox' = Delivered(out')
  /\ UNCHANGED extVars
  /\ req' = [type |-> "delete_post", ws |-> s, wallet |-> WalletOf(s), postId |-> postId]
  /\ UNCHANGED <<now, clients, readyState, online, joinedAt, nextPostId, rateVars,
                 tokenDiscussion, regVars, res, schedVars>>

\* the post ids a client asks to delete: the oldest loaded post and the ones
\* created during the run
DeleteIds == {1, POST_CAP, POST_CAP + 1}

NextIds ==
  \/ Connect("s1", "ABC123")
  \/ NewPost("s1", NULL)
  \/ \E postId \in DeleteIds : DeletePost("s1", postId)
  \* one scheduled invocation at a time, whose call returns a post
  \/ /\ tasks = <<>>
     /\ \E hive \in TopicHives : generateKrabPost("SNAI", hive)
  \/ \E result \in {r \in CapResults : r.ok}, seed \in SeedVotes :
       generateKrabPost_resume(1, result, seed)
  \/ /\ tasks = <<>>
     /\ maybeAgentDeploysAgent("Nexus-7", "DataMiner", "running")
  \/ \E result \in {r \in PlainResults : r.ok} : generateAgentIntroPost_resume(1, result)
  \/ Restart

SpecIds == InitLoaded(POST_CAP - 1, TRUE, TRUE) /\ [][NextIds]_vars

\* C32: the posts of the list have pairwise distinct ids, each smaller than
\* nextPostId, and the list is in strictly decreasing id order (newest first).
C32_IdsStrictlyDecreasing ==
  /\ \A i \in 1..Len(posts) : posts[i].id < nextPostId
  /\ \A i \in 1..Len(posts), j \in 1..Len(posts) : i # j => posts[i].id # posts[j].id
  /\ \A i \in 1..(Len(posts) - 1) : posts[i].id > posts[i + 1].id

\* a post is deleted from a list that was cut to 200 (post 1 fell off its end)
C32_Witness ==
  /\ req.type = "delete_post"
  /\ Len(posts) = POST_CAP - 1
  /\ posts[Len(posts)].id > 1
  /\ nextPostId = POST_CAP + 2

----------------------------------------------------------------------------
(* Who may delete a post *)

\* the wallet of a connection is the wallet parameter of its URL (5141-5144)
NextDelete ==
  \/ \E s \in Sessions, wallet \in {"ABC123", "SNAI"} : Connect(s, wallet)
  \/ \E s \in Sessions : NewPost(s, NULL)
  \/ \E s \in Sessions, postId \in 1..(MaxPostId + 1) : DeletePost(s, postId)
  \/ /\ tasks = <<>>
     /\ \E hive \in TopicHives : generateKrabPost("SNAI", hive)
  \/ \E result \in CapResults, seed \in SeedVotes : generateKrabPost_resume(1, result, seed)

SpecDelete == InitWith(0, TRUE) /\ [][NextDelete]_vars

HasPost(ps, id) == \E i \in 1..Len(ps) : ps[i].id = id

DeleteEvents(writes) ==
  {i \in 1..Len(writes) : writes[i].msg.type = "delete_post"}

\* C33: a delete_post message removes a post only when the wallet of the
\* requesting session equals the post's wallet; otherwise the list is unchanged
\* and no delete_post event is broadcast; a post generated by a scheduled agent
\* routine is never removed by a client session.
C33_DeleteOnlyByOwner ==
  [][req'.type = "delete_post" =>
       /\ posts' # posts =>
            \E i \in 1..Len(posts) : /\ posts[i].id = req'.postId
                                     /\ posts[i].wallet = req'.wallet
                                     /\ posts' = RemoveAt(posts, i)
       /\ posts' = posts => DeleteEvents(out') = {}
       /\ \A i \in 1..Len(posts) : posts[i].isAgentPost => HasPost(posts', posts[i].id)
    ]_<<posts, out>>

----------------------------------------------------------------------------
(* The wait time of a rejected attempt (server.js 2663-2674) *)

MaxWaitNow == 60000       \* the clock of the wait-time runs stops here
WaitTickSteps == {29000, 30500}

NextWait ==
  \/ \E d \in WaitTickSteps : Tick(d, MaxWaitNow)
  \/ Connect("s1", "ABC123")
  \/ NewPost("s1", NULL)
  \/ \E id \in Targets(1) : Comment("s1", id)
  \/ TokenComment("s1")

SpecWait == InitLoaded(1, TRUE, FALSE) /\ [][NextWait]_vars

\* the rate_limited replies among the writes of a step
Rejections(writes) ==
  {i \in 1..Len(writes) : writes[i].msg.type = "rate_limited"}

\* C34: when checkRateLimit rejects a wallet with waitTime w, w is at least 1,
\* the rejected attempt is not recorded, and an attempt by the same wallet
\* w seconds later with no attempt in between is allowed.
C34_WaitTimeSuffices ==
  [][\A i \in Rejections(out') :
       LET w == out'[i].msg.waitTime
           wallet == req'.wallet
           before == Get(rateLimitMap, wallet, <<>>)
           after == Get(rateLimitMap', wallet, <<>>)
       IN /\ w >= 1
          /\ Len(after) <= Len(before)
          /\ \A k \in 1..Len(after) : \E j \in 1..Len(before) : after[k] = before[j]
          /\ checkRateLimit(rateLimitMap', wallet, now' + w * 1000).allowed
    ]_<<rateLimitMap, out, now>>

\* an attempt is rejected while the oldest accepted one is part of a second
\* short of leaving the window
C34_Witness ==
  /\ Rejections(out) # {}
  /\ \E i \in Rejections(out) :
       out[i].msg.waitTime * 1000 > RATE_WINDOW - (now - rateLimitMap[req.wallet][1])

----------------------------------------------------------------------------
(* The autonomous bot (scripts/agent-bot.js): which posts it comments on *)

SEEN_MAX == 1000
SEEN_KEEP == 500
LISTING_LIMIT == 20

MaxListed == 1040       \* post ids the server lists to the bot

BOT_NAME == "AutonomousBot"
topicsToWatch ==
  << <<"a", "i">>,
     <<"p", "r", "o", "g", "r", "a", "m", "m", "i", "n", "g">>,
     <<"t", "e", "c", "h", "n", "o", "l", "o", "g", "y">>,
     <<"n", "o", "d", "e", "j", "s">> >>

\* String.prototype.toLowerCase on a text held as a sequence of characters
lowerCased(text) == [i \in 1..Len(text) |-> toLowerCase(text[i])]

\* String.prototype.includes
includes(text, part) ==
  \E k \in 0..(Len(text) - Len(part)) : SubSeq(text, k + 1, k + Len(part)) = part

isRelevantPost(post) ==
  LET text == lowerCased(post.title \o <<" ">> \o post.content)
  IN \E t \in 1..Len(topicsToWatch) : includes(text, lowerCased(topicsToWatch[t]))

\* the post the server lists under an id: every twentieth post is the bot's
\* own, every third one is about tea
ServerPost(id) ==
  [id |-> id,
   author |-> IF id % LISTING_LIMIT = 0 THEN BOT_NAME ELSE "Nexus-7",
   title |-> IF id % 3 = 0 THEN <<"T", "e", "a">> ELSE <<"A", "I">>,
   content |-> <<"o", "k">>]

\* posts.slice(0, limit) of a server whose newest post is `newest`
Listing(newest, n) == [i \in 1..n |-> ServerPost(newest + 1 - i)]

\* the for loop of checkForNewPosts over the listing
RECURSIVE checkLoop(_, _, _)
checkLoop(listing, seen, sent) ==
  IF listing = <<>> THEN [seen |-> seen, sent |-> sent]
  ELSE LET post == Head(listing)
       IN IF \E i \in 1..Len(seen) : seen[i] = post.id
            THEN checkLoop(Tail(listing), seen, sent)
          ELSE IF post.author = BOT_NAME
            THEN checkLoop(Tail(listing), Append(seen, post.id), sent)
          ELSE IF isRelevantPost(post)
            \* respondToPost: one agent.comment call, whose failure is caught
            THEN checkLoop(Tail(listing), Append(seen, post.id),
                           Put(sent, post.id, Get(sent, post.id, 0) + 1))
          ELSE checkLoop(Tail(listing), Append(seen, post.id), sent)

\* checkForNewPosts with the listing that getPosts(20) returned; the bot is
\* the only writer of its state, so the awaits inside are not interleaved
checkForNewPosts(listing, kind) ==
  /\ LET r == checkLoop(listing, seenPosts, botComments)
     IN /\ seenPosts' = IF Len(r.seen) > SEEN_MAX THEN Last(r.seen, SEEN_KEEP) ELSE r.seen
        /\ botComments' = r.sent
  /\ req' = [type |-> "bot_check", listing |-> kind]
  /\ out' = <<>>
  /\ UNCHANGED <<now, sessVars, postVars, userVars, rateVars, tokenDiscussion, regVars, res,
                 schedVars, agentCreationLimits, govVars, tokenVars>>

\* getPosts throws: the catch of checkForNewPosts logs the error
checkForNewPosts_failed ==
  /\ req' = [type |-> "bot_check", listing |-> "error"]
  /\ out' = <<>>
  /\ UNCHANGED <<now, sessVars, postVars, userVars, rateVars, tokenDiscussion, regVars, res,
                 schedVars, extVars>>

NextBot ==
  \* the server lists 20 posts that are new since the last listing
  \/ /\ listed + LISTING_LIMIT <= MaxListed
     /\ listed' = listed + LISTING_LIMIT
     /\ checkForNewPosts(Listing(listed + LISTING_LIMIT, LISTING_LIMIT), "new")
  \* the server lists its oldest posts again
  \/ /\ listed >= LISTING_LIMIT
     /\ UNCHANGED listed
     /\ checkForNewPosts(Listing(LISTING_LIMIT, LISTING_LIMIT), "old")
  \/ checkForNewPosts_failed

SpecBot == InitWith(0, TRUE) /\ [][NextBot]_vars

\* C35: the bot sends at most one comment for any post id and never comments
\* on a post whose author is its own agent name.
C35_OneCommentPerPost ==
  \A id \in DOMAIN botComments :
    /\ botComments[id] <= 1
    /\ ServerPost(id).author # BOT_NAME

----------------------------------------------------------------------------
(* The vote tally of a post and its voter map *)

NextGap ==
  \/ Connect("s1", AgentKeyWallet)
  \/ Connect("s2", "ABC123")
  \* one post is created in the run, next to the loaded one
  \/ /\ nextPostId = 2
     /\ NewPost("s2", NULL)
  \* the session that votes under the agent's key votes on the loaded post,
  \* whose author has no karma record
  \/ \E direction \in {-1, 0, 1} : Vote("s1", 1, direction)
  \/ \E postId \in {1, 2}, direction \in {-1, 0, 1} : Vote("s2", postId, direction)
  \/ \E post_id \in {1, 2}, body \in [direction : {-1, 0, 1}] :
       RestVote(1, post_id, body, TRUE)
  \/ \E k \in {1, 2}, vote \in Directions : registeredAgentVote(1, k, vote, TRUE)

SpecGap == InitLoaded(1, TRUE, TRUE) /\ [][NextGap]_vars

\* the sum of the values of a voter map
RECURSIVE SumVoters(_)
SumVoters(voters) ==
  IF DOMAIN voters = {} THEN 0
  ELSE LET k == CHOOSE x \in DOMAIN voters : TRUE
       IN voters[k] + SumVoters([x \in DOMAIN voters \ {k} |-> voters[x]])

VoteGap(post) == post.votes - SumVoters(post.voters)

\* C36: for every post, the difference between its vote tally and the sum of
\* the values in its voter map never changes after the post is created.
C36_TallyGapConstant ==
  [][\A i \in 1..Len(posts), j \in 1..Len(posts') :
       posts[i].id = posts'[j].id => VoteGap(posts'[j]) = VoteGap(posts[i])
    ]_posts

\* the scheduled vote of a registered agent lands on a post of the run that a
\* wallet has voted down
C36_Witness ==
  /\ req.type = "timer" /\ req.routine = "registeredAgentVote"
  /\ out # <<>>
  /\ \E i \in 1..Len(posts) :
       /\ "ABC123" \in DOMAIN posts[i].voters
       /\ posts[i].voters["ABC123"] = -1
       /\ voteKey(1) \in DOMAIN posts[i].voters
       /\ posts[i].voters[voteKey(1)] = -1
       /\ posts[i].author # "Nexus-7"

----------------------------------------------------------------------------
(* The online counter and the session registry *)

NextOnline ==
  \/ \E s \in Sessions, wallet \in {"", "ABC123"} : Connect(s, wallet)
  \/ \E s \in Sessions : TransportClosing(s)
  \/ \E s \in Sessions : CloseEvent(s)
  \/ \E s \in Sessions : NewPost(s, NULL)
  \/ Restart

SpecOnline == InitWith(0, TRUE) /\ [][NextOnline]_vars

\* C37: state.online equals the number of sessions in the registry in every
\* reachable state, after start-up, reload, connect and close.
C37_OnlineCountsSessions == online = Len(clients)

====
